---------------------------- MODULE Spec2Model ----------------------------
(***************************************************************************)
(* Model of the EcoMatrix nearest-location lookup:                         *)
(*   - LocationTool.find_nearby_locations  (src/tools/map.py)              *)
(*   - the Flask endpoint find_nearby      (src/app.py)                    *)
(* over the static point-of-interest list of src/config.py / src/app.py.   *)
(*                                                                         *)
(* Coordinates are integers in units of 1e-4 degree (every coordinate of   *)
(* the fixture list and of the service-area bounds is a multiple of 1e-4). *)
(* Distances are integers in millimetres (1e-6 km) before rounding and in  *)
(* metres (1e-3 km) after round(distance, 3).  Floating point arithmetic   *)
(* is modelled in fixed point; every intermediate value fits in 31 bits.   *)
(***************************************************************************)
EXTENDS Integers, Sequences, FiniteSets, TLC

(***************************************************************************)
(* Fixed-point arithmetic                                                  *)
(***************************************************************************)
E9 == 1000 * 1000 * 1000

Abs(x) == IF x < 0 THEN 0 - x ELSE x

\* a * b / 1e9 for 0 <= a, b, by splitting both factors at 1e5 so that no
\* partial product exceeds 31 bits (the lowest partial product is truncated;
\* the result is within one unit of floor(a * b / 1e9)).
MulE9(a, b) ==
    LET a1 == a \div 100000
        a0 == a % 100000
        b1 == b \div 100000
        b0 == b % 100000
    IN a1 * b1 * 10
       + (a1 * b0 + a0 * b1 + ((a0 \div 100) * (b0 \div 100)) \div 10) \div 10000

\* integer square root of n >= 0 (Newton's iteration from above)
RECURSIVE IsqrtFrom(_, _)
IsqrtFrom(n, y) ==
    LET y2 == (y + n \div y) \div 2
    IN IF y2 >= y THEN y ELSE IsqrtFrom(n, y2)

Isqrt(n) == IF n = 0 THEN 0 ELSE IsqrtFrom(n, IF n < 46340 THEN n ELSE 46340)

(***************************************************************************)
(* math.radians, math.sin, math.cos, math.sqrt, math.atan2 in fixed point  *)
(***************************************************************************)
\* math.radians of an angle given in 1e-4 degree; result in 1e-9 rad.
\* pi / 180 * 1e-4 rad = 1745.329252e-9 rad
RadiansNano(x) ==
    LET ax == Abs(x)
        r  == ax * 1745 + (ax * 329 + (ax * 252) \div 1000) \div 1000
    IN IF x < 0 THEN 0 - r ELSE r

\* math.radians of a small angle given in 1e-4 degree; result in 1e-12 rad.
RadiansPico(x) ==
    LET ax == Abs(x)
        r  == ax * 1745329 + (ax * 252) \div 1000
    IN IF x < 0 THEN 0 - r ELSE r

\* x / 2 for a signed fixed-point x
Half(x) == IF x < 0 THEN 0 - ((0 - x) \div 2) ELSE x \div 2

\* x - x^3/6 for 0 <= x < 1e-3 rad; x and the result in 1e-12
SinSeries(ax) == ax - (MulE9(MulE9(ax, ax), ax) \div 6 + 500000) \div 1000000

\* math.sin for |x| < 1e-3 rad; x and the result in 1e-12
SinPico(x) == IF x < 0 THEN 0 - SinSeries(0 - x) ELSE SinSeries(x)

\* Number of terms of the Taylor series of cos after the leading 1
CosTerms == 7

\* sum of the terms k..CosTerms of the series of cos, where x2 is x^2 and
\* tk the term k without its sign
RECURSIVE CosSeries(_, _, _)
CosSeries(x2, tk, k) ==
    IF k > CosTerms THEN 0
    ELSE (IF k % 2 = 1 THEN 0 - tk ELSE tk)
         + CosSeries(x2, MulE9(tk, x2) \div ((2 * k + 1) * (2 * k + 2)), k + 1)

\* 1 - x2/2 + x2^2/24 - ... for x2 = x^2 in 1e-9
CosOfSquare(x2) == E9 + CosSeries(x2, MulE9(E9, x2) \div 2, 1)

\* math.cos; x in 1e-9 rad, result in 1e-9
CosNano(x) == CosOfSquare(MulE9(Abs(x), Abs(x)))

\* sqrt(y0^2 + rem) = y0 + rem / (2 y0) - rem^2 / (8 y0^3), scaled by 1e4
SqrtRefine(y0, rem) ==
    IF y0 = 0 THEN 0
    ELSE 10000 * y0 + (10000 * rem) \div (2 * y0)
         - (10000 * ((rem * rem) \div (8 * y0))) \div (y0 * y0)

SqrtFrom(a16, y0) == SqrtRefine(y0, a16 - y0 * y0)

\* math.sqrt of a value a16 given in 1e-16; result in 1e-12
SqrtPico(a16) == SqrtFrom(a16, Isqrt(a16))

\* sqrt(1 - e) = 1 - e / 2 - e^2 / 8, e and the result in 1e-9
SqrtOneMinus(e) == E9 - e \div 2 - MulE9(e, e) \div 8

\* math.sqrt of a value v <= 1 close to 1; v and the result in 1e-9
SqrtNano(v) == SqrtOneMinus(E9 - v)

\* atan(t) = t - t^3/3 for 0 <= t < 1e-3; t and the result in 1e-12
AtanPico(t) == t - (MulE9(MulE9(t, t), t) \div 3 + 500000) \div 1000000

\* math.atan2(y, x) for 0 <= y << x and x close to 1; y in 1e-12, x in 1e-9,
\* result in 1e-12:  y / x = y (1 + (1 - x))
Atan2Pico(y, x) == AtanPico(y + MulE9(y, E9 - x))

(***************************************************************************)
(* calculate_distance: haversine distance, result in millimetres (1e-6 km) *)
(***************************************************************************)
R == 6371  \* Earth's radius in kilometers

\* the formula with cos(lat1_rad) taken twice
haversine_a_cosLat1Twice(sin_lat, sin_lng, cos_lat1, cos_lat2) ==
    MulE9(sin_lat, 10 * sin_lat)
    + MulE9(MulE9(cos_lat1, cos_lat1), MulE9(sin_lng, 10 * sin_lng))

\* a = sin(delta_lat/2)**2 + cos(lat1_rad) * cos(lat2_rad) * sin(delta_lng/2)**2
\* in 1e-16, from the sines in 1e-12 and the cosines in 1e-9
haversine_a(sin_lat, sin_lng, cos_lat1, cos_lat2) ==
    MulE9(sin_lat, 10 * sin_lat)
    + MulE9(MulE9(cos_lat1, cos_lat2), MulE9(sin_lng, 10 * sin_lng))

\* c = 2 * atan2(sqrt(a), sqrt(1 - a)) in 1e-12 rad, a in 1e-16
haversine_c(a) == 2 * Atan2Pico(SqrtPico(a), SqrtNano(E9 - a \div 10000000))

\* a distance that looks at the latitudes only
calculate_distance_latOnly(lat1, lng1, lat2, lng2) ==
    MulE9(haversine_c(haversine_a(
              Abs(SinPico(Half(RadiansPico(lat2 - lat1)))), 0,
              CosNano(RadiansNano(lat1)),
              CosNano(RadiansNano(lat2)))),
          R * 1000)

calculate_distance(lat1, lng1, lat2, lng2) ==
    MulE9(haversine_c(haversine_a(
              Abs(SinPico(Half(RadiansPico(lat2 - lat1)))),
              Abs(SinPico(Half(RadiansPico(lng2 - lng1)))),
              CosNano(RadiansNano(lat1)),
              CosNano(RadiansNano(lat2)))),
          R * 1000)

\* a rounding that drops the digits after the third decimal
round3_truncate(mm) == mm \div 1000

\* round(distance, 3): millimetres to metres, ties to even as Python's round
round3(mm) ==
    LET q == mm \div 1000
        r == mm % 1000
    IN IF r > 500 \/ (r = 500 /\ q % 2 = 1) THEN q + 1 ELSE q

(***************************************************************************)
(* Strings.  A Python str is a sequence of one-character strings, so that  *)
(* str.lower, str.split, str.strip, the `in` operator and concatenation    *)
(* are computed character by character.                                    *)
(***************************************************************************)
Upper == <<"A", "B", "C", "D", "E", "F", "G", "H", "I", "J", "K", "L", "M",
           "N", "O", "P", "Q", "R", "S", "T", "U", "V", "W", "X", "Y", "Z">>
Lower == <<"a", "b", "c", "d", "e", "f", "g", "h", "i", "j", "k", "l", "m",
           "n", "o", "p", "q", "r", "s", "t", "u", "v", "w", "x", "y", "z">>

LowerChar(ch) ==
    IF \E i \in 1..26 : Upper[i] = ch
    THEN Lower[CHOOSE i \in 1..26 : Upper[i] = ch]
    ELSE ch

\* str.lower()
StrLower(s) == [i \in 1..Len(s) |-> LowerChar(s[i])]

\* the characters str.split() and str.strip() treat as whitespace
IsSpace(ch) == ch = " "

\* `k in s` for two strings
IsSubstring(k, s) ==
    \E i \in 0..(Len(s) - Len(k)) : SubSeq(s, i + 1, i + Len(k)) = k

\* str.strip() = "" : the string has no character other than whitespace
StripIsEmpty(s) == \A i \in 1..Len(s) : IsSpace(s[i])

\* str.split(): the maximal runs of non-whitespace characters, in order.
\* `word` is the run being read (empty when between words).
RECURSIVE SplitFrom(_, _, _)
SplitFrom(s, i, word) ==
    IF i > Len(s)
    THEN IF word = <<>> THEN <<>> ELSE <<word>>
    ELSE IF IsSpace(s[i])
         THEN (IF word = <<>> THEN <<>> ELSE <<word>>) \o SplitFrom(s, i + 1, <<>>)
         ELSE SplitFrom(s, i + 1, Append(word, s[i]))

StrSplit(s) == SplitFrom(s, 1, <<>>)

Space == <<" ">>


(***************************************************************************)
(* Configuration: the service area and the static point-of-interest list   *)
(* (src/config.py Config.DEFAULT_AREA / Config.LOCATIONS; src/app.py       *)
(* FIXED_AREA / LOCATIONS hold the same values).                           *)
(***************************************************************************)
\* bounds in units of 1e-4 degree
DEFAULT_AREA ==
    [center |-> [lat |-> 407128, lng |-> -740060],
     bounds |-> [north |-> 407228, south |-> 407028,
                 east |-> -739960, west |-> -740160]]

FIXED_AREA ==
    [center |-> [lat |-> 407128, lng |-> -740060],
     bounds |-> [north |-> 407228, south |-> 407028,
                 east |-> -739960, west |-> -740160]]

SHOP  == <<"s", "h", "o", "p">>
HOUSE == <<"h", "o", "u", "s", "e">>

\* "Butter Shop A"
Name1 == <<"B", "u", "t", "t", "e", "r", " ", "S", "h", "o", "p", " ", "A">>
\* "Fresh dairy and butter products"
Description1 == <<"F", "r", "e", "s", "h", " ", "d", "a", "i", "r", "y",
    " ", "a", "n", "d", " ", "b", "u", "t", "t", "e", "r", " ", "p", "r",
    "o", "d", "u", "c", "t", "s">>

\* "Hammer Shop B"
Name2 == <<"H", "a", "m", "m", "e", "r", " ", "S", "h", "o", "p", " ", "B">>
\* "Hardware tools and equipment"
Description2 == <<"H", "a", "r", "d", "w", "a", "r", "e", " ", "t", "o",
    "o", "l", "s", " ", "a", "n", "d", " ", "e", "q", "u", "i", "p", "m",
    "e", "n", "t">>

\* "House Alpha"
Name3 == <<"H", "o", "u", "s", "e", " ", "A", "l", "p", "h", "a">>
\* "Residential building with modern amenities"
Description3 == <<"R", "e", "s", "i", "d", "e", "n", "t", "i", "a", "l",
    " ", "b", "u", "i", "l", "d", "i", "n", "g", " ", "w", "i", "t", "h",
    " ", "m", "o", "d", "e", "r", "n", " ", "a", "m", "e", "n", "i", "t",
    "i", "e", "s">>

\* "House Beta"
Name4 == <<"H", "o", "u", "s", "e", " ", "B", "e", "t", "a">>
\* "Cozy family home"
Description4 == <<"C", "o", "z", "y", " ", "f", "a", "m", "i", "l", "y",
    " ", "h", "o", "m", "e">>

\* "Coffee Corner C"
Name5 == <<"C", "o", "f", "f", "e", "e", " ", "C", "o", "r", "n", "e", "r",
    " ", "C">>
\* "Artisan coffee and pastries"
Description5 == <<"A", "r", "t", "i", "s", "a", "n", " ", "c", "o", "f",
    "f", "e", "e", " ", "a", "n", "d", " ", "p", "a", "s", "t", "r", "i",
    "e", "s">>

\* "Book Haven D"
Name6 == <<"B", "o", "o", "k", " ", "H", "a", "v", "e", "n", " ", "D">>
\* "Books, magazines, and stationery"
Description6 == <<"B", "o", "o", "k", "s", ",", " ", "m", "a", "g", "a",
    "z", "i", "n", "e", "s", ",", " ", "a", "n", "d", " ", "s", "t", "a",
    "t", "i", "o", "n", "e", "r", "y">>

\* "House Gamma"
Name7 == <<"H", "o", "u", "s", "e", " ", "G", "a", "m", "m", "a">>
\* "Historic townhouse"
Description7 == <<"H", "i", "s", "t", "o", "r", "i", "c", " ", "t", "o",
    "w", "n", "h", "o", "u", "s", "e">>

\* "Tech Store E"
Name8 == <<"T", "e", "c", "h", " ", "S", "t", "o", "r", "e", " ", "E">>
\* "Electronics and gadgets"
Description8 == <<"E", "l", "e", "c", "t", "r", "o", "n", "i", "c", "s",
    " ", "a", "n", "d", " ", "g", "a", "d", "g", "e", "t", "s">>

LOCATIONS ==
    <<[id |-> 1, name |-> Name1, type |-> SHOP, lat |-> 407140, lng |-> -740070,
       description |-> Description1],
      [id |-> 2, name |-> Name2, type |-> SHOP, lat |-> 407160, lng |-> -740050,
       description |-> Description2],
      [id |-> 3, name |-> Name3, type |-> HOUSE, lat |-> 407120, lng |-> -740080,
       description |-> Description3],
      [id |-> 4, name |-> Name4, type |-> HOUSE, lat |-> 407180, lng |-> -740040,
       description |-> Description4],
      [id |-> 5, name |-> Name5, type |-> SHOP, lat |-> 407100, lng |-> -740100,
       description |-> Description5],
      [id |-> 6, name |-> Name6, type |-> SHOP, lat |-> 407200, lng |-> -740020,
       description |-> Description6],
      [id |-> 7, name |-> Name7, type |-> HOUSE, lat |-> 407150, lng |-> -740110,
       description |-> Description7],
      [id |-> 8, name |-> Name8, type |-> SHOP, lat |-> 407190, lng |-> -740090,
       description |-> Description8]>>

(***************************************************************************)
(* keywords_map of LocationTool._filter_by_query, in insertion order       *)
(***************************************************************************)
keywords_map ==
    <<[category |-> <<"c", "o", "f", "f", "e", "e">>,
       keywords |-> <<<<"c", "o", "f", "f", "e", "e">>,
                      <<"c", "a", "f", "e">>,
                      <<"e", "s", "p", "r", "e", "s", "s", "o">>,
                      <<"l", "a", "t", "t", "e">>>>],
      [category |-> <<"h", "a", "r", "d", "w", "a", "r", "e">>,
       keywords |-> <<<<"h", "a", "r", "d", "w", "a", "r", "e">>,
                      <<"t", "o", "o", "l", "s">>,
                      <<"h", "a", "m", "m", "e", "r">>,
                      <<"e", "q", "u", "i", "p", "m", "e", "n", "t">>,
                      <<"r", "e", "p", "a", "i", "r">>>>],
      [category |-> <<"b", "o", "o", "k", "s">>,
       keywords |-> <<<<"b", "o", "o", "k">>,
                      <<"l", "i", "b", "r", "a", "r", "y">>,
                      <<"r", "e", "a", "d", "i", "n", "g">>,
                      <<"m", "a", "g", "a", "z", "i", "n", "e">>,
                      <<"s", "t", "a", "t", "i", "o", "n", "e", "r", "y">>>>],
      [category |-> <<"t", "e", "c", "h">>,
       keywords |-> <<<<"t", "e", "c", "h">>,
                      <<"e", "l", "e", "c", "t", "r", "o", "n", "i", "c", "s">>,
                      <<"c", "o", "m", "p", "u", "t", "e", "r">>,
                      <<"g", "a", "d", "g", "e", "t">>,
                      <<"p", "h", "o", "n", "e">>>>],
      [category |-> <<"h", "o", "u", "s", "e">>,
       keywords |-> <<<<"h", "o", "u", "s", "e">>,
                      <<"h", "o", "m", "e">>,
                      <<"r", "e", "s", "i", "d", "e", "n", "t", "i", "a", "l">>,
                      <<"a", "p", "a", "r", "t", "m", "e", "n", "t">>>>],
      [category |-> <<"s", "h", "o", "p">>,
       keywords |-> <<<<"s", "h", "o", "p">>,
                      <<"s", "t", "o", "r", "e">>,
                      <<"m", "a", "r", "k", "e", "t">>,
                      <<"r", "e", "t", "a", "i", "l">>>>]>>

(***************************************************************************)
(* Request inputs.  A JSON / Python value that reaches the lookup as a     *)
(* coordinate is a number, None (the key is missing) or a string.          *)
(***************************************************************************)
Num(v)  == [kind |-> "num", v |-> v]
None    == [kind |-> "none", v |-> 0]
\* a non-numeric, non-empty string such as "abc"
StrAbc  == [kind |-> "str", v |-> 0]

\* Python truthiness of a coordinate value (`not user_lat`)
Truthy(x) ==
    CASE x.kind = "none" -> FALSE
      [] x.kind = "num"  -> x.v # 0
      [] x.kind = "str"  -> TRUE

\* float('inf') as a sort key
Inf == 2147483647

(***************************************************************************)
(* State                                                                   *)
(***************************************************************************)
VARIABLES
    heap,       \* the dict objects: reference -> record of the dict's items
    locations,  \* Config.LOCATIONS / app.LOCATIONS: the list of references
    pc,         \* per caller: "idle" or "done" (a response is being returned)
    request,    \* per caller: the request being served
    response,   \* per caller: what the lookup returned
    frame,      \* per caller: the locals of the lookup when it returned
    measure,    \* a pair of points and the distances computed between them
    connections,\* ExotelStreamManager.connections: stream id -> entry
    sessions,   \* EcoMatrixAgent.sessions: stream id -> session
    sockets,    \* per websocket: the state of its handle_exotel_websocket
    sent,       \* the audio sent for the last message handled: where the
                \* event arrived, where the audio went
    conversation_histories, \* comm.py: call_id -> list of messages
    calls,      \* per call_id: what its requests have been answered
    make_call_response, \* what the last make_call answered
    gemini,     \* a conversation and what generate_gemini_response made of it
    temp_dir,   \* the files of Config.TEMP_DIR and of UPLOAD_FOLDER:
                \* path -> inode and size
    uploads,    \* per upload: the state of its FileService.save_upload
    now         \* time.time(), in whole seconds

\* the state of the lookups, of the Exotel streams and of everything else
lookupVars == <<heap, locations, pc, request, response, frame>>
streamVars == <<connections, sessions, sockets, sent>>
callVars   == <<conversation_histories, calls, make_call_response, gemini>>
fileVars   == <<temp_dir, uploads, now>>
otherVars  == <<measure, streamVars, callVars, fileVars>>

vars == <<lookupVars, otherVars>>

\* Number of callers whose lookups may overlap
NumCallers == 2

Callers == 1..NumCallers

StaticRefs == 1..Len(LOCATIONS)

\* the identity of the i-th dict allocated by caller c's request
FreshRef(c, i) == Len(LOCATIONS) * c + i

Range(seq) == {seq[i] : i \in 1..Len(seq)}

(***************************************************************************)
(* dict operations                                                         *)
(***************************************************************************)
\* d[field] = val
SetItem(d, field, val) ==
    [f \in DOMAIN d \cup {field} |-> IF f = field THEN val ELSE d[f]]

\* d.get(field, default)
GetItem(d, field, default) == IF field \in DOMAIN d THEN d[field] ELSE default

\* an assignment instead of a copy: the list entry itself is handed on
DictCopy_alias(h, ref, fresh) == [heap |-> h, ref |-> ref]

\* location.copy(): a new dict `fresh` with the items of h[ref]
DictCopy(h, ref, fresh) ==
    [heap |-> [r \in DOMAIN h \cup {fresh} |-> IF r = fresh THEN h[ref] ELSE h[r]],
     ref  |-> fresh]

(***************************************************************************)
(* list.sort(key = ...): a stable sort.  keyOf maps a reference to a tuple *)
(* of integers, compared lexicographically.                                *)
(***************************************************************************)
LexLess(a, b) ==
    \E i \in 1..Len(a) : a[i] < b[i] /\ \A j \in 1..(i - 1) : a[j] = b[j]

\* an insertion that puts x before the elements with an equal key
RECURSIVE InsertSorted_beforeEqual(_, _, _)
InsertSorted_beforeEqual(sorted, x, keyOf) ==
    IF sorted = <<>> THEN <<x>>
    ELSE LET last == sorted[Len(sorted)]
         IN IF ~LexLess(keyOf[last], keyOf[x])
            THEN Append(InsertSorted_beforeEqual(
                            SubSeq(sorted, 1, Len(sorted) - 1), x, keyOf), last)
            ELSE Append(sorted, x)

\* insert x into the sorted list after every element whose key is not greater
RECURSIVE InsertSorted(_, _, _)
InsertSorted(sorted, x, keyOf) ==
    IF sorted = <<>> THEN <<x>>
    ELSE LET last == sorted[Len(sorted)]
         IN IF LexLess(keyOf[x], keyOf[last])
            THEN Append(InsertSorted(SubSeq(sorted, 1, Len(sorted) - 1), x, keyOf), last)
            ELSE Append(sorted, x)

RECURSIVE SortFrom(_, _, _, _)
SortFrom(list, i, sorted, keyOf) ==
    IF i > Len(list) THEN sorted
    ELSE SortFrom(list, i + 1, InsertSorted(sorted, list[i], keyOf), keyOf)

list_sort(list, keyOf) == SortFrom(list, 1, <<>>, keyOf)

\* key = lambda x: x.get('distance', float('inf'))
DistanceKey(h) == [r \in DOMAIN h |-> <<GetItem(h[r], "distance", Inf)>>]

\* the key of _filter_by_query without the negation of the score
RelevanceKey_ascendingScore(h) ==
    [r \in DOMAIN h |-> <<GetItem(h[r], "relevance_score", 0),
                          GetItem(h[r], "distance", Inf)>>]

\* key = lambda x: (-x.get('relevance_score', 0), x.get('distance', float('inf')))
RelevanceKey(h) ==
    [r \in DOMAIN h |-> <<0 - GetItem(h[r], "relevance_score", 0),
                          GetItem(h[r], "distance", Inf)>>]

(***************************************************************************)
(* Bounds checks                                                           *)
(***************************************************************************)
\* is_within_service_area with exclusive comparisons
is_within_service_area_exclusive(lat, lng) ==
    LET bounds == DEFAULT_AREA.bounds
    IN IF lat.kind # "num" THEN FALSE
       ELSE IF ~(bounds.south < lat.v /\ lat.v < bounds.north) THEN FALSE
       ELSE IF lng.kind # "num" THEN FALSE
       ELSE bounds.west < lng.v /\ lng.v < bounds.east

\* LocationTool.is_within_service_area: a comparison of a float with None or
\* a str raises TypeError, which the method catches and turns into False.
is_within_service_area(lat, lng) ==
    LET bounds == DEFAULT_AREA.bounds
    IN IF lat.kind # "num" THEN FALSE
       ELSE IF ~(bounds.south <= lat.v /\ lat.v <= bounds.north) THEN FALSE
       ELSE IF lng.kind # "num" THEN FALSE
       ELSE bounds.west <= lng.v /\ lng.v <= bounds.east

\* app.is_within_bounds: the same comparison without a handler.  `raised` tells
\* that the comparison raised TypeError (`and` evaluates the longitude only
\* when the latitude is in range).
is_within_bounds(lat, lng) ==
    LET bounds == FIXED_AREA.bounds
    IN IF lat.kind # "num" THEN [raised |-> TRUE, value |-> FALSE]
       ELSE IF ~(bounds.south <= lat.v /\ lat.v <= bounds.north)
            THEN [raised |-> FALSE, value |-> FALSE]
       ELSE IF lng.kind # "num" THEN [raised |-> TRUE, value |-> FALSE]
       ELSE [raised |-> FALSE,
             value  |-> bounds.west <= lng.v /\ lng.v <= bounds.east]

(***************************************************************************)
(* LocationTool._filter_by_query                                           *)
(***************************************************************************)
\* f"{location['name']} {location['description']} {location['type']}".lower()
location_text(location) ==
    StrLower(location.name \o Space \o location.description \o Space
             \o location.type)

\* the (category, keyword) pairs of keywords_map, as index pairs
KeywordPairs ==
    {<<i, j>> \in (1..Len(keywords_map)) \X (1..5) :
        j <= Len(keywords_map[i].keywords)}

\* the score of one location, given its lowered text and the query's words
score_of(location, text, query_lower, query_words) ==
    LET \* "Direct keyword matches": pairs whose keyword occurs in the query
        hit(p)   == IsSubstring(keywords_map[p[1]].keywords[p[2]], query_lower)
        first(p) == \/ IsSubstring(keywords_map[p[1]].keywords[p[2]], text)
                    \/ IsSubstring(keywords_map[p[1]].category, text)
        second(p) == \/ location.type = keywords_map[p[1]].category
                     \/ IsSubstring(keywords_map[p[1]].category,
                                    StrLower(location.name))
    IN 10 * Cardinality({p \in KeywordPairs : hit(p) /\ first(p)})
       + 5 * Cardinality({p \in KeywordPairs : hit(p) /\ ~first(p) /\ second(p)})
       \* "General relevance": every query word longer than two characters
       + 3 * Cardinality({i \in 1..Len(query_words) :
                             /\ Len(query_words[i]) > 2
                             /\ IsSubstring(query_words[i], text)})
       \* "Type matching"
       + (IF \E i \in 1..Len(query_words) :
                IsSubstring(query_words[i], StrLower(location.type))
          THEN 5 ELSE 0)

\* a score that looks at the type of the location only
relevance_score_typeOnly(location, query_lower) ==
    IF \E i \in 1..Len(StrSplit(query_lower)) :
          IsSubstring(StrSplit(query_lower)[i], StrLower(location.type))
    THEN 5 ELSE 0

\* the score the loop of _filter_by_query gives one location
relevance_score(location, query_lower) ==
    score_of(location, location_text(location), query_lower,
             StrSplit(query_lower))

\* keeps the locations with a positive score only
keep_location_scoreOnly(score, query_words) == score > 0

\* keeps every location
keep_location_always(score, query_words) == TRUE

\* "Include if score > 0 or if no specific query filtering needed"
keep_location(score, query_words) == score > 0 \/ Len(query_words) <= 2

\* The loop over `locations`: location['relevance_score'] = score is written
\* on the dict the list refers to, and the location is appended to `filtered`
\* when keep_location holds.
RECURSIVE FilterLoop(_, _, _, _, _)
\* a loop step that writes the score on the entry of the shared list too
FilterStep_scoreShared(h, list, i, query_lower, filtered, score) ==
    FilterLoop([h EXCEPT ![list[i]] = SetItem(@, "relevance_score", score),
                         ![h[list[i]].id] = SetItem(@, "relevance_score", score)],
               list, i + 1, query_lower,
               IF keep_location(score, StrSplit(query_lower))
               THEN Append(filtered, list[i]) ELSE filtered)

FilterStep(h, list, i, query_lower, filtered, score) ==
    FilterLoop([h EXCEPT ![list[i]] = SetItem(@, "relevance_score", score)],
               list, i + 1, query_lower,
               IF keep_location(score, StrSplit(query_lower))
               THEN Append(filtered, list[i]) ELSE filtered)

FilterLoop(h, list, i, query_lower, filtered) ==
    IF i > Len(list) THEN [heap |-> h, list |-> filtered]
    ELSE FilterStep(h, list, i, query_lower, filtered,
                    relevance_score(h[list[i]], query_lower))

\* "Sort by relevance score (descending) then by distance (ascending)"
sort_by_relevance(scored) ==
    [heap |-> scored.heap,
     list |-> list_sort(scored.list, RelevanceKey(scored.heap))]

\* returns the heap after the call and the returned list
filter_by_query(h, list, query) ==
    IF query = <<>> \/ StripIsEmpty(query)
    THEN [heap |-> h, list |-> list]
    ELSE sort_by_relevance(FilterLoop(h, list, 1, StrLower(query), <<>>))

(***************************************************************************)
(* LocationTool._generate_location_response: the template chosen and the   *)
(* values it interpolates                                                  *)
(***************************************************************************)
\* _generate_location_response without the branch for an empty list
generate_location_response_noEmptyCase(h, list, query) ==
    IF Len(list) = 1
    THEN [template |-> "I found {name} about {distance} from you. {description} Would you like directions or more information?",
          name |-> h[list[1]].name, distance |-> h[list[1]].distance]
    ELSE [template |-> IF query # <<>>
                       THEN "I found several options for {query} near you! ..."
                       ELSE "Here are some places near you! ...",
          query |-> query,
          mentioned |-> [i \in 1..(IF Len(list) < 3 THEN Len(list) ELSE 3) |->
                            [name |-> h[list[i]].name,
                             distance |-> h[list[i]].distance]],
          more |-> IF Len(list) > 3 THEN Len(list) - 3 ELSE 0]

generate_location_response(h, list, query) ==
    IF list = <<>>
    THEN IF query # <<>>
         THEN [template |-> "I didn't find any {query} in your immediate area. Would you like me to help you find something else?",
               query |-> query]
         ELSE [template |-> "I don't see any places in your immediate area right now. Could you try a different location or tell me what you're looking for?"]
    ELSE IF Len(list) = 1
    THEN [template |-> "I found {name} about {distance} from you. {description} Would you like directions or more information?",
          name |-> h[list[1]].name, distance |-> h[list[1]].distance]
    ELSE [template |-> IF query # <<>>
                       THEN "I found several options for {query} near you! ..."
                       ELSE "Here are some places near you! ...",
          query |-> query,
          mentioned |-> [i \in 1..(IF Len(list) < 3 THEN Len(list) ELSE 3) |->
                            [name |-> h[list[i]].name,
                             distance |-> h[list[i]].distance]],
          more |-> IF Len(list) > 3 THEN Len(list) - 3 ELSE 0]

(***************************************************************************)
(* The lookups                                                             *)
(***************************************************************************)
\* filtered_locations[:5]  /  locations_with_distance[:5]
TopN == 5

\* a slice that does not truncate
Take_all(list, n) == list

Take(list, n) == SubSeq(list, 1, IF Len(list) < n THEN Len(list) ELSE n)

\* location_with_distance['distance'] = distance, on the copy `item`
StoreDistance(item, distance) ==
    [heap |-> [item.heap EXCEPT ![item.ref] = SetItem(@, "distance", distance)],
     ref  |-> item.ref]

\* The loop "Calculate distances to all locations": every location is copied,
\* the rounded distance is stored on the copy and the copy is appended.
RECURSIVE ScanLocations(_, _, _, _, _, _, _)
ScanAppend(item, locs, i, c, user_lat, user_lng, acc) ==
    ScanLocations(item.heap, locs, i + 1, c, user_lat, user_lng,
                  Append(acc, item.ref))

ScanLocations(h, locs, i, c, user_lat, user_lng, acc) ==
    IF i > Len(locs) THEN [heap |-> h, list |-> acc]
    ELSE ScanAppend(
             StoreDistance(DictCopy(h, locs[i], FreshRef(c, i)),
                           round3(calculate_distance(user_lat, user_lng,
                                                     h[locs[i]].lat,
                                                     h[locs[i]].lng))),
             locs, i, c, user_lat, user_lng, acc)

NoRequest  == [impl |-> "none", lat |-> None, lng |-> None, query |-> <<>>]
NoResponse == [pending |-> TRUE]
NoFrame    == [bounds_checked |-> FALSE, distance_calls |-> 0,
               locations_with_distance |-> <<>>, filtered |-> <<>>,
               returned |-> <<>>]

\* str(e) of the exception raised by f"{user_lat:.4f}, {user_lng:.4f}"
FormatError(user_lat, user_lng) ==
    LET bad == IF user_lat.kind # "num" THEN user_lat ELSE user_lng
    IN IF bad.kind = "none"
       THEN "unsupported format string passed to NoneType.__format__"
       ELSE "Unknown format code 'f' for object of type 'str'"

\* "Get top 5 results" and the result dict of find_nearby_locations
find_nearby_locations_result(filtered, locations_with_distance, nearest_locations, locs, user_lat, user_lng, query) ==
    [heap |-> filtered.heap,
     response |->
        [user_location     |-> [lat |-> user_lat, lng |-> user_lng],
         nearest_locations |-> nearest_locations,
         total_found       |-> Len(filtered.list),
         query             |-> query,
         message           |-> generate_location_response(
                                   filtered.heap, nearest_locations, query),
         service_area      |-> DEFAULT_AREA.bounds],
     frame |->
        [bounds_checked |-> TRUE,
         distance_calls |-> Len(locs),
         locations_with_distance |-> locations_with_distance,
         filtered |-> filtered.list,
         \* the items of the returned dicts at the moment of the return
         returned |-> [i \in 1..Len(nearest_locations) |->
                          filtered.heap[nearest_locations[i]]]]]

find_nearby_locations_top(filtered, locations_with_distance, locs, user_lat, user_lng, query) ==
    find_nearby_locations_result(filtered, locations_with_distance,
                                 Take(filtered.list, TopN), locs,
                                 user_lat, user_lng, query)

\* "Filter by query if provided"
find_nearby_locations_filter(h, locations_with_distance, locs, user_lat, user_lng, query) ==
    find_nearby_locations_top(
        filter_by_query(h, locations_with_distance, query),
        locations_with_distance, locs, user_lat, user_lng, query)

\* "Sort by distance"
find_nearby_locations_sort(scanned, locs, user_lat, user_lng, query) ==
    find_nearby_locations_filter(
        scanned.heap, list_sort(scanned.list, DistanceKey(scanned.heap)),
        locs, user_lat, user_lng, query)

\* The body of LocationTool.find_nearby_locations(user_lat, user_lng, query)
\* run for caller c on heap h: the heap when it returns, the dict it returns
\* and its locals.
find_nearby_locations_body(h, locs, c, user_lat, user_lng, query) ==
    IF user_lat.kind # "num" \/ user_lng.kind # "num"
    THEN \* the logger.info f-string raises; the outer handler answers
         [heap |-> h,
          response |->
             [error   |-> FormatError(user_lat, user_lng),
              message |-> "I'm sorry, I'm having trouble finding locations right now. Please try again."],
          frame |-> NoFrame]
    ELSE IF ~is_within_service_area(user_lat, user_lng)
    THEN [heap |-> h,
          response |->
             [error         |-> "Location is outside the service area",
              service_area  |-> DEFAULT_AREA.bounds,
              user_location |-> [lat |-> user_lat, lng |-> user_lng],
              message       |-> "I'm sorry, but you're outside our service area. We currently serve the downtown area."],
          frame |-> [NoFrame EXCEPT !.bounds_checked = TRUE]]
    ELSE find_nearby_locations_sort(
             ScanLocations(h, locs, 1, c, user_lat.v, user_lng.v, <<>>),
             locs, user_lat, user_lng, query)

\* LocationTool.find_nearby_locations called by caller c.  The method has no
\* await: it runs to its return in one step.
find_nearby_locations(c, user_lat, user_lng, query) ==
    /\ pc[c] = "idle"
    /\ pc' = [pc EXCEPT ![c] = "done"]
    /\ request' = [request EXCEPT ![c] =
                      [impl |-> "tool", lat |-> user_lat, lng |-> user_lng,
                       query |-> query]]
    /\ \E out \in {find_nearby_locations_body(heap, locations, c,
                                              user_lat, user_lng, query)} :
          /\ heap' = out.heap
          /\ response' = [response EXCEPT ![c] = out.response]
          /\ frame' = [frame EXCEPT ![c] = out.frame]
    /\ locations' = locations
    /\ UNCHANGED otherVars

\* "Return nearest 5 locations" and the JSON answer of app.find_nearby
find_nearby_result(h, locations_with_distance, nearest_locations, locs, user_lat, user_lng) ==
    [heap |-> h,
     response |->
        [status |-> 200,
         body   |-> [user_location     |-> [lat |-> user_lat, lng |-> user_lng],
                     nearest_locations |-> nearest_locations,
                     service_area      |-> FIXED_AREA.bounds]],
     frame |->
        [bounds_checked |-> TRUE,
         distance_calls |-> Len(locs),
         locations_with_distance |-> locations_with_distance,
         filtered |-> locations_with_distance,
         returned |-> [i \in 1..Len(nearest_locations) |->
                          h[nearest_locations[i]]]]]

find_nearby_top(h, locations_with_distance, locs, user_lat, user_lng) ==
    find_nearby_result(h, locations_with_distance,
                       Take(locations_with_distance, TopN), locs,
                       user_lat, user_lng)

\* "Sort by distance"
find_nearby_sort(scanned, locs, user_lat, user_lng) ==
    find_nearby_top(scanned.heap,
                    list_sort(scanned.list, DistanceKey(scanned.heap)),
                    locs, user_lat, user_lng)

\* the view after the truthiness test, given the outcome of is_within_bounds
find_nearby_checked(h, locs, c, user_lat, user_lng, within) ==
    IF within.raised
    THEN [heap |-> h,
          response |-> [status |-> 500, exception |-> "TypeError"],
          frame |-> [NoFrame EXCEPT !.bounds_checked = TRUE]]
    ELSE IF ~within.value
    THEN [heap |-> h,
          response |->
             [status |-> 400,
              body   |-> [error         |-> "Location is outside the service area",
                          service_area  |-> FIXED_AREA.bounds,
                          user_location |-> [lat |-> user_lat,
                                             lng |-> user_lng]]],
          frame |-> [NoFrame EXCEPT !.bounds_checked = TRUE]]
    ELSE find_nearby_sort(
             ScanLocations(h, locs, 1, c, user_lat.v, user_lng.v, <<>>),
             locs, user_lat, user_lng)

\* The body of app.find_nearby for the JSON body `data`.  `status` is the
\* HTTP status of the answer; an exception that leaves the view is answered
\* by Flask with status 500.
find_nearby_body(h, locs, c, data) ==
    IF ~Truthy(data.lat) \/ ~Truthy(data.lng)
    THEN [heap |-> h,
          response |->
             [status |-> 400,
              body   |-> [error |-> "Latitude and longitude required"]],
          frame |-> NoFrame]
    ELSE find_nearby_checked(h, locs, c, data.lat, data.lng,
                             is_within_bounds(data.lat, data.lng))

\* app.find_nearby: the Flask view of POST /api/find-nearby, served for
\* caller c.
find_nearby(c, data) ==
    /\ pc[c] = "idle"
    /\ pc' = [pc EXCEPT ![c] = "done"]
    /\ request' = [request EXCEPT ![c] =
                      [impl |-> "app", lat |-> data.lat, lng |-> data.lng,
                       query |-> data.query]]
    /\ \E out \in {find_nearby_body(heap, locations, c, data)} :
          /\ heap' = out.heap
          /\ response' = [response EXCEPT ![c] = out.response]
          /\ frame' = [frame EXCEPT ![c] = out.frame]
    /\ locations' = locations
    /\ UNCHANGED otherVars

\* The response has been delivered: the request's dicts are unreachable.
Respond(c) ==
    /\ pc[c] = "done"
    /\ pc' = [pc EXCEPT ![c] = "idle"]
    /\ request' = [request EXCEPT ![c] = NoRequest]
    /\ response' = [response EXCEPT ![c] = NoResponse]
    /\ frame' = [frame EXCEPT ![c] = NoFrame]
    /\ heap' = [r \in DOMAIN heap \ {FreshRef(c, i) : i \in 1..Len(locations)}
                   |-> heap[r]]
    /\ locations' = locations
    /\ UNCHANGED otherVars

(***************************************************************************)
(* The Exotel media stream: ExotelStreamManager.handle_exotel_websocket    *)
(* (src/main.py) and the sessions of EcoMatrixAgent (src/agents/agents.py).*)
(* The only calls of the handler that suspend are websocket.accept, the    *)
(* receive of websocket.iter_text and websocket.send_text: what the handler*)
(* does with one message, up to its send, is one step.                     *)
(***************************************************************************)
\* Number of websockets opened on /media
NumSockets == 2

\* Number of messages the websockets deliver altogether
MaxMessages == 3

Websockets == 1..NumSockets

\* stream_id = "unknown" and the stream ids the messages carry
Unknown   == "unknown"
StreamIds == {"A", "B"}

\* a mapping with string keys: d[key] = val, del d[key]
Put(d, key, val) ==
    [k \in DOMAIN d \cup {key} |-> IF k = key THEN val ELSE d[k]]

Del(d, key) == [k \in DOMAIN d \ {key} |-> d[k]]

\* The text messages a websocket may deliver.  json: "invalid" is not JSON,
\* "array" is JSON that is not an object, "object" is an object with the
\* given event and, unless sid is "none", a streamSid; malformed tells that
\* the "media" / "mark" member of the object is a string instead of an object.
Messages ==
    {[json |-> "invalid", event |-> "", sid |-> "none", malformed |-> FALSE],
     [json |-> "array", event |-> "", sid |-> "none", malformed |-> FALSE]}
    \cup {[json |-> "object", event |-> e, sid |-> i, malformed |-> FALSE] :
            e \in {"connected", "start", "media", "stop"},
            i \in {"none"} \cup StreamIds}
    \cup {[json |-> "object", event |-> "mark", sid |-> i, malformed |-> TRUE] :
            i \in {"none"} \cup StreamIds}

\* the locals and the progress of one handle_exotel_websocket(websocket):
\* state is "new" before websocket.accept, "open" in the loop, "returned"
\* after the handler returned
NewSocket ==
    [state     |-> "new",
     stream_id |-> Unknown,
     received  |-> 0,      \* messages delivered by iter_text
     last      |-> "none", \* the last message: "processed", or "skipped" by
                           \* one of the except clauses of the loop body
     skipped   |-> FALSE,  \* some message was skipped
     wellformed|-> FALSE,  \* the last message was an object whose members
                           \* have the types the handlers expect
     stopped   |-> FALSE,  \* a "stop" event was dispatched
     using     |-> {},     \* the stream id of the last message stored
     added     |-> {}]     \* the stream ids this handler added to connections

\* EcoMatrixAgent.create_session(stream_id), called for websocket w
create_session(sess, stream_id, w) ==
    Put(sess, stream_id, [stream_id |-> stream_id, creator |-> w,
                          state |-> "greeting"])

\* EcoMatrixAgent.cleanup_session(stream_id)
cleanup_session_keep(sess, stream_id) == sess
cleanup_session(sess, stream_id) ==
    IF stream_id \in DOMAIN sess THEN Del(sess, stream_id) ELSE sess

\* ExotelStreamManager.cleanup_connection(stream_id): the connections and the
\* sessions after the call
cleanup_connection(conns, sess, stream_id) ==
    IF stream_id \in DOMAIN conns
    THEN [connections |-> Del(conns, stream_id),
          sessions    |-> cleanup_session(sess, stream_id)]
    ELSE [connections |-> conns, sessions |-> sess]

\* "Extract stream ID": the local stream_id after the message
extract_stream_id(stream_id, m) == IF m.sid # "none" THEN m.sid ELSE stream_id

\* "Store connection": the connections and the sessions after the test
\* `if stream_id not in self.connections`
store_connection(conns, sess, stream_id, w) ==
    IF stream_id \notin DOMAIN conns
    THEN [connections |-> Put(conns, stream_id,
                              [websocket |-> w, agent_session |-> w]),
          sessions    |-> create_session(sess, stream_id, w),
          added       |-> {stream_id}]
    ELSE [connections |-> conns, sessions |-> sess, added |-> {}]

\* ExotelStreamManager.send_audio_to_exotel(stream_id, audio) for an event
\* that arrived on websocket w: the audio messages sent
send_audio_to_exotel(conns, stream_id, w) ==
    IF stream_id \notin DOMAIN conns THEN {}
    ELSE {[arrived |-> w, on |-> conns[stream_id].websocket]}

\* "Handle events" for a message that is an object, after the connection was
\* stored: the sessions, the audio sent and whether the handler raised
dispatch(stored, stream_id, m, w) ==
    IF m.event = "connected"
    THEN \* handle_connected: send_initial_greeting
         [sessions |-> stored.sessions,
          audio    |-> send_audio_to_exotel(stored.connections, stream_id, w),
          raised   |-> FALSE]
    ELSE IF m.event = "media"
    THEN \* handle_media: media.get raises when "media" is not an object;
         \* process_audio answers when the session exists
         IF m.malformed
         THEN [sessions |-> stored.sessions, audio |-> {}, raised |-> TRUE]
         ELSE IF stream_id \in DOMAIN stored.sessions
         THEN [sessions |-> stored.sessions,
               audio    |-> send_audio_to_exotel(stored.connections, stream_id, w),
               raised   |-> FALSE]
         ELSE [sessions |-> stored.sessions, audio |-> {}, raised |-> FALSE]
    ELSE IF m.event = "mark"
    THEN \* handle_mark: data.get("mark", {}).get raises on a string
         [sessions |-> stored.sessions, audio |-> {}, raised |-> m.malformed]
    ELSE \* start, stop and the events the handler does not know
         [sessions |-> stored.sessions, audio |-> {}, raised |-> FALSE]

\* the state after `finally: await self.cleanup_connection(stream_id)` and the
\* return of the handler of websocket w, whose local stream_id is stream_id
Return(conns, sess, socks, w, stream_id, counted) ==
    [connections |-> cleanup_connection(conns, sess, stream_id).connections,
     sessions    |-> cleanup_connection(conns, sess, stream_id).sessions,
     sockets     |-> [socks EXCEPT ![w] = [counted EXCEPT !.state = "returned"]]]

\* a loop body without the `break` after handle_stop
handle_object_noBreak(conns, sess, socks, w, m, stream_id, stored, done) ==
    [connections |-> stored.connections,
     sessions    |-> done.sessions,
     sockets     |-> [socks EXCEPT ![w] =
                        [@ EXCEPT !.stream_id = stream_id,
                                  !.received = @ + 1,
                                  !.last = IF done.raised THEN "skipped"
                                           ELSE "processed",
                                  !.skipped = @ \/ done.raised,
                                  !.wellformed = ~m.malformed,
                                  !.stopped = @ \/ m.event = "stop",
                                  !.using = {stream_id},
                                  !.added = @ \cup stored.added]],
     audio       |-> done.audio]

\* one message that is a JSON object, from "Extract stream ID" to the end of
\* the loop body (or, for "stop", to the return of the handler)
handle_object(conns, sess, socks, w, m, stream_id, stored, done) ==
    IF m.event = "stop" /\ ~done.raised
    THEN Return(stored.connections, done.sessions, socks, w, stream_id,
                [socks[w] EXCEPT !.stream_id = stream_id,
                                 !.received = @ + 1,
                                 !.last = "processed",
                                 !.wellformed = TRUE,
                                 !.stopped = TRUE,
                                 !.using = {stream_id},
                                 !.added = @ \cup stored.added])
         @@ [audio |-> done.audio]
    ELSE [connections |-> stored.connections,
          sessions    |-> done.sessions,
          sockets     |-> [socks EXCEPT ![w] =
                             [@ EXCEPT !.stream_id = stream_id,
                                       !.received = @ + 1,
                                       !.last = IF done.raised THEN "skipped"
                                                ELSE "processed",
                                       !.skipped = @ \/ done.raised,
                                       !.wellformed = ~m.malformed,
                                       !.using = {stream_id},
                                       !.added = @ \cup stored.added]],
          audio       |-> done.audio]

handle_stored(conns, sess, socks, w, m, stream_id, stored) ==
    handle_object(conns, sess, socks, w, m, stream_id, stored,
                  dispatch(stored, stream_id, m, w))

\* a loop whose try does not catch what json.loads or data.get raise: the
\* exception leaves the loop and the handler returns
handle_message_parseErrorEndsLoop(conns, sess, socks, w, m) ==
    IF m.json # "object"
    THEN Return(conns, sess, socks, w, socks[w].stream_id,
                [socks[w] EXCEPT !.received = @ + 1, !.last = "skipped",
                                 !.wellformed = FALSE, !.skipped = TRUE])
         @@ [audio |-> {}]
    ELSE handle_stored(conns, sess, socks, w, m,
                       extract_stream_id(socks[w].stream_id, m),
                       store_connection(conns, sess,
                                        extract_stream_id(socks[w].stream_id, m), w))

\* the body of `async for message in websocket.iter_text()` for message m
handle_message(conns, sess, socks, w, m) ==
    IF m.json # "object"
    THEN \* json.loads raises JSONDecodeError, or data.get raises on a list
         [connections |-> conns,
          sessions    |-> sess,
          sockets     |-> [socks EXCEPT ![w].received = @ + 1,
                                        ![w].last = "skipped",
                                        ![w].wellformed = FALSE,
                                        ![w].skipped = TRUE],
          audio       |-> {}]
    ELSE handle_stored(conns, sess, socks, w, m,
                       extract_stream_id(socks[w].stream_id, m),
                       store_connection(conns, sess,
                                        extract_stream_id(socks[w].stream_id, m), w))

\* the number of messages delivered so far on the websockets 1..w
RECURSIVE Delivered(_, _)
Delivered(socks, w) ==
    IF w = 0 THEN 0 ELSE socks[w].received + Delivered(socks, w - 1)

\* await websocket.accept()
Accept(w) ==
    /\ sockets[w].state = "new"
    /\ sockets' = [sockets EXCEPT ![w].state = "open"]
    /\ UNCHANGED <<connections, sessions, sent>>
    /\ UNCHANGED <<lookupVars, measure, callVars, fileVars>>

\* iter_text delivers message m and the loop body runs
Receive(w, m) ==
    /\ sockets[w].state = "open"
    /\ Delivered(sockets, NumSockets) < MaxMessages
    /\ \E out \in {handle_message(connections, sessions, sockets, w, m)} :
          /\ connections' = out.connections
          /\ sessions' = out.sessions
          /\ sockets' = out.sockets
          /\ sent' = out.audio
    /\ UNCHANGED <<lookupVars, measure, callVars, fileVars>>

\* The client closes the websocket or an exception leaves the loop (also out
\* of websocket.accept): the except clauses, then finally.
Disconnect(w) ==
    /\ sockets[w].state \in {"new", "open"}
    /\ \E out \in {Return(connections, sessions, sockets, w,
                          sockets[w].stream_id, sockets[w])} :
          /\ connections' = out.connections
          /\ sessions' = out.sessions
          /\ sockets' = out.sockets
    /\ sent' = sent
    /\ UNCHANGED <<lookupVars, measure, callVars, fileVars>>

NextStream ==
    \E w \in Websockets :
        \/ Accept(w)
        \/ \E m \in Messages : Receive(w, m)
        \/ Disconnect(w)

(***************************************************************************)
(* The Twilio caller (src/caller-agent/comm.py): conversation_histories    *)
(* and the views that create, extend and remove a call's history.  Flask   *)
(* serves each request on its own thread: handle_response is two steps,    *)
(* before and after the call of Gemini, and the other views are one step.  *)
(***************************************************************************)
\* Number of call ids (uuid4 values) that make_call hands out
NumCalls == 2

\* Number of speech results handle_response takes for one call
MaxTurns == 2

CallIds == 1..NumCalls

\* CallStatus values of Twilio's status callback
TerminalStatuses == {"completed", "failed", "busy", "no-answer", "canceled"}
CallStatuses     == TerminalStatuses \cup {"ringing", "in-progress"}

\* what is known of a call id: made is "no", "ok" (make_call answered 200) or
\* "error" (make_call answered 500); ended tells that a terminal status
\* callback arrived; thinking that a handle_response waits for Gemini; answer
\* is the last answer of handle_response and late tells that this request
\* arrived after the terminal callback
NoCall ==
    [made |-> "no", ended |-> FALSE, thinking |-> FALSE, turns |-> 0,
     answer |-> "none", late |-> FALSE]

\* the two messages make_call starts a history with
InitialHistory ==
    <<[role |-> "model", content |-> "system"],
      [role |-> "model", content |-> "initial_message"]>>

\* the call id of the next make_call: uuid4 never repeats
NextCallId(cs) ==
    IF \A id \in CallIds : cs[id].made # "no" THEN 0
    ELSE CHOOSE id \in CallIds :
            cs[id].made = "no" /\ \A j \in 1..(id - 1) : cs[j].made # "no"

\* request.get_json() of make_call: no body or {}, a body without
\* phone_number, with an empty one, with one that lacks the '+', a valid one
Bodies ==
    {<<>>,
     [initial_message |-> "hi"],
     [phone_number |-> <<>>],
     [phone_number |-> <<"5", "5", "5">>],
     [phone_number |-> <<"+", "1", "5", "5", "5">>]}

NoMakeCall == [status |-> 0, error |-> "none"]

\* the checks of the body at the head of initiate_call: the 400 it answers,
\* or NoMakeCall when the body passes
validate_body(data) ==
    IF data = <<>>
    THEN [status |-> 400, error |-> "Missing request body"]
    ELSE IF "phone_number" \notin DOMAIN data \/ data.phone_number = <<>>
    THEN [status |-> 400, error |-> "Missing required parameter: phone_number"]
    ELSE IF data.phone_number[1] # "+"
    THEN [status |-> 400, error |-> "Phone number must include country code"]
    ELSE NoMakeCall

\* initiate_call: after the checks of the body the history is stored, then
\* Twilio places the call or raises
initiate_call(data, created) ==
    /\ NextCallId(calls) # 0
    /\ IF validate_body(data) # NoMakeCall
       THEN /\ make_call_response' = validate_body(data)
            /\ UNCHANGED <<conversation_histories, calls>>
       ELSE /\ conversation_histories' =
                  Put(conversation_histories, NextCallId(calls), InitialHistory)
            /\ calls' = [calls EXCEPT ![NextCallId(calls)].made =
                            IF created THEN "ok" ELSE "error"]
            /\ make_call_response' =
                  IF created THEN [status |-> 200, error |-> "none"]
                  ELSE [status |-> 500, error |-> "str(e)"]
    /\ UNCHANGED <<lookupVars, measure, streamVars, fileVars, gemini>>

\* log_conversation without the clean-up at its end
log_conversation_keep(histories, call_id) == histories

\* log_conversation(call_id, status): the histories after the call
log_conversation(histories, call_id) ==
    IF call_id \in DOMAIN histories THEN Del(histories, call_id) ELSE histories

\* call_status: POST /call_status?call_id=... with CallStatus = status.
\* Twilio reports on the calls it placed, until it reports a terminal status.
call_status(call_id, status) ==
    /\ calls[call_id].made = "ok"
    /\ ~calls[call_id].ended
    /\ conversation_histories' =
          IF status \in TerminalStatuses
          THEN log_conversation(conversation_histories, call_id)
          ELSE conversation_histories
    /\ calls' = [calls EXCEPT ![call_id].ended = status \in TerminalStatuses]
    /\ UNCHANGED <<lookupVars, measure, streamVars, fileVars,
                 make_call_response, gemini>>

\* list.append on the history of call_id
AppendMessage(histories, call_id, msg) ==
    [histories EXCEPT ![call_id] = Append(@, msg)]

\* handle_response up to the call of generate_gemini_response: speech tells
\* whether SpeechResult is present
handle_response(call_id, speech) ==
    /\ ~calls[call_id].thinking
    /\ calls[call_id].turns < MaxTurns
    /\ IF ~speech
       THEN \* "I didn't catch that. ... Goodbye." and hangup
            /\ conversation_histories' =
                  IF call_id \in DOMAIN conversation_histories
                  THEN AppendMessage(conversation_histories, call_id,
                          [role |-> "user", content |-> "[NO RESPONSE DETECTED]"])
                  ELSE conversation_histories
            /\ calls' = [calls EXCEPT ![call_id].answer = "hangup",
                                      ![call_id].turns = @ + 1,
                                      ![call_id].late = calls[call_id].ended]
       ELSE IF call_id \in DOMAIN conversation_histories
       THEN /\ conversation_histories' =
                  AppendMessage(conversation_histories, call_id,
                                [role |-> "user", content |-> "speech"])
            /\ calls' = [calls EXCEPT ![call_id].thinking = TRUE,
                                      ![call_id].answer = "none",
                                      ![call_id].turns = @ + 1,
                                      ![call_id].late = calls[call_id].ended]
       ELSE \* "I'm having trouble with this call. Goodbye." and hangup
            /\ conversation_histories' = conversation_histories
            /\ calls' = [calls EXCEPT ![call_id].answer = "hangup",
                                      ![call_id].turns = @ + 1,
                                      ![call_id].late = calls[call_id].ended]
    /\ UNCHANGED <<lookupVars, measure, streamVars, fileVars,
                 make_call_response, gemini>>

\* handle_response after generate_gemini_response returned: the answer is
\* appended with conversation_histories[call_id].append, which raises
\* KeyError when the history was removed meanwhile
handle_response_answer(call_id) ==
    /\ calls[call_id].thinking
    /\ IF call_id \in DOMAIN conversation_histories
       THEN /\ conversation_histories' =
                  AppendMessage(conversation_histories, call_id,
                                [role |-> "model", content |-> "ai_response"])
            /\ calls' = [calls EXCEPT ![call_id].thinking = FALSE,
                                      ![call_id].answer = "gather"]
       ELSE /\ conversation_histories' = conversation_histories
            /\ calls' = [calls EXCEPT ![call_id].thinking = FALSE,
                                      ![call_id].answer = "KeyError"]
    /\ UNCHANGED <<lookupVars, measure, streamVars, fileVars,
                 make_call_response, gemini>>

NextCall ==
    \/ \E data \in Bodies, created \in BOOLEAN : initiate_call(data, created)
    \/ \E call_id \in CallIds :
          \/ \E status \in CallStatuses : call_status(call_id, status)
          \/ \E speech \in BOOLEAN : handle_response(call_id, speech)
          \/ handle_response_answer(call_id)

(***************************************************************************)
(* caller-agent/comm.py: generate_gemini_response as a function of the     *)
(* conversation                                                            *)
(***************************************************************************)
\* Length of the longest conversation history
MaxHistory == 16

\* the roles the messages of a history are given in turn, in four variants
RoleOf(i, variant) ==
    CASE variant = 0 -> IF i % 2 = 1 THEN "user" ELSE "model"
      [] variant = 1 -> IF i % 2 = 0 THEN "user" ELSE "model"
      [] variant = 2 -> IF i % 3 = 0 THEN "assistant" ELSE "user"
      [] OTHER       -> "model"

\* a history of n messages: the two of make_call, then message i with
\* content i
Conversation(n, variant) ==
    [i \in 1..n |->
        IF i <= 2 THEN InitialHistory[i]
        ELSE [role |-> RoleOf(i, variant), content |-> i]]

Conversations ==
    {Conversation(n, variant) : n \in 2..MaxHistory, variant \in 0..3}

NoGemini == [conversation |-> <<>>, done |-> FALSE]

\* conversation[-k:]
LastK(list, k) ==
    IF Len(list) <= k THEN list ELSE SubSeq(list, Len(list) - k + 1, Len(list))

\* "Keep conversation history manageable": the local `conversation` after
\* the test
truncate(conversation) ==
    IF Len(conversation) > 12
    THEN <<conversation[1]>> \o LastK(conversation, 11)
    ELSE conversation

\* "Convert conversation history to Gemini format": the system message, then
\* the messages from the second on with their roles mapped
gemini_contents(conversation) ==
    <<[role |-> "model", text |-> "system"]>>
    \o [i \in 1..(Len(conversation) - 1) |->
          [role |-> IF conversation[i + 1].role = "user" THEN "user"
                    ELSE "model",
           text |-> conversation[i + 1].content]]

\* generate_gemini_response(conversation): the contents given to the model
\* and the caller's list after the call (the function rebinds its local name
\* and leaves the list alone)
generate_gemini_response(conversation) ==
    [contents |-> gemini_contents(truncate(conversation)),
     stored   |-> conversation]

\* generate_gemini_response applied to the conversation
Generate ==
    /\ ~gemini.done
    /\ gemini' = [conversation |-> gemini.conversation, done |-> TRUE,
                  contents |->
                      generate_gemini_response(gemini.conversation).contents,
                  stored |->
                      generate_gemini_response(gemini.conversation).stored]
    /\ UNCHANGED <<conversation_histories, calls, make_call_response>>
    /\ UNCHANGED <<lookupVars, measure, streamVars, fileVars>>

NextGemini == Generate

(***************************************************************************)
(* backend/file_service.py: FileService                                    *)
(*                                                                         *)
(* save_upload awaits file.read() between opening the temp file and        *)
(* writing to it, so other uploads run in between: it is two steps.  A     *)
(* file of the directory is its inode (the upload that created it) and     *)
(* its size; an upload writes to the inode it opened, which may no more    *)
(* be the file at its path.                                                *)
(***************************************************************************)
\* Number of uploads the backend receives
MaxUploads == 3

\* The seconds time.time() advances during the uploads
MaxTime == 1

UploadIds == 1..MaxUploads

MAX_FILE_SIZE == 10485760

ALLOWED_EXTENSIONS == {"jpg", "jpeg", "png", "mp4", "mov", "avi"}

\* file.filename as filename.split('.'): no filename, "a.jpg", "b.PNG",
\* "c.txt"
Filenames == {<<>>, <<"a", "jpg">>, <<"b", "PNG">>, <<"c", "txt">>}

\* len(content) of the uploaded files
Sizes == {MAX_FILE_SIZE, MAX_FILE_SIZE + 1}

UploadFiles == [filename : Filenames, size : Sizes]

NoPath == <<>>

NoUpload ==
    [pc |-> "new", path |-> NoPath, size |-> 0, inode |-> 0, status |-> 0,
     detail |-> "none"]

\* str.lower() on the extensions of Filenames
lower(extension) ==
    CASE extension = "PNG" -> "png"
      [] extension = "JPG" -> "jpg"
      [] OTHER -> extension

validate_file(file) ==
    IF file.filename = <<>>
    THEN FALSE
    ELSE lower(file.filename[Len(file.filename)]) \in ALLOWED_EXTENSIONS

\* file_path: f"{timestamp}_{file.filename}" in Config.TEMP_DIR
FilePath(timestamp, file) == <<timestamp, file.filename>>

\* open(file_path, "wb") by upload u: creates the file, or truncates the one
\* that is there
open_wb(dir, path, u) ==
    IF path \in DOMAIN dir
    THEN [dir EXCEPT ![path].size = 0]
    ELSE Put(dir, path, [inode |-> u, size |-> 0])

\* buffer.write(content) and the close of the with block, on the inode the
\* upload opened
write(dir, path, inode, size) ==
    IF path \in DOMAIN dir /\ dir[path].inode = inode
    THEN [dir EXCEPT ![path].size = IF @ > size THEN @ ELSE size]
    ELSE dir

\* if os.path.exists(file_path): os.remove(file_path)
remove_if_exists(dir, path) ==
    IF path \in DOMAIN dir THEN Del(dir, path) ELSE dir

\* the upload u that has not been received yet with the least id
NextUpload(ups) ==
    IF \E u \in UploadIds : ups[u].pc = "new"
    THEN {CHOOSE u \in UploadIds :
            /\ ups[u].pc = "new"
            /\ \A v \in UploadIds : ups[v].pc = "new" => u <= v}
    ELSE {}

\* save_upload up to `await file.read()`
save_upload(u, file) ==
    /\ u \in NextUpload(uploads)
    /\ IF ~validate_file(file)
       THEN /\ uploads' = [uploads EXCEPT ![u] =
                  [pc |-> "raised", path |-> NoPath, size |-> file.size,
                   inode |-> 0, status |-> 400,
                   detail |-> "Invalid file type"]]
            /\ temp_dir' = temp_dir
       ELSE /\ uploads' = [uploads EXCEPT ![u] =
                  [pc |-> "reading", path |-> FilePath(now, file),
                   size |-> file.size, inode |-> open_wb(temp_dir,
                       FilePath(now, file), u)[FilePath(now, file)].inode,
                   status |-> 0, detail |-> "none"]]
            /\ temp_dir' = open_wb(temp_dir, FilePath(now, file), u)
    /\ now' = now
    /\ UNCHANGED <<lookupVars, measure, streamVars, callVars>>

\* the except clause of save_upload: whatever was raised in the try block,
\* the HTTPException of line 41 included, becomes a 500
save_upload_except(up) ==
    [up EXCEPT !.pc = "raised", !.status = 500,
               !.detail = "Error saving file"]

\* save_upload from the return of `await file.read()`
save_upload_read(u) ==
    /\ uploads[u].pc = "reading"
    /\ IF uploads[u].size > MAX_FILE_SIZE
       THEN /\ temp_dir' = remove_if_exists(temp_dir, uploads[u].path)
            /\ uploads' = [uploads EXCEPT ![u] = save_upload_except(@)]
       ELSE /\ temp_dir' = write(temp_dir, uploads[u].path, uploads[u].inode,
                                 uploads[u].size)
            /\ uploads' = [uploads EXCEPT ![u].pc = "saved",
                                          ![u].status = 200]
    /\ now' = now
    /\ UNCHANGED <<lookupVars, measure, streamVars, callVars>>

\* FileService.cleanup_file(file_path)
cleanup_file_keep(dir, path) == dir
cleanup_file(dir, path) == remove_if_exists(dir, path)

\* analyze_product and analyze_diy after save_upload returned: the awaited
\* calls of ai_service succeed or raise, the response is 200 or a 500, and
\* the finally clause cleans the file up
analyze_return(u, succeeded) ==
    /\ uploads[u].pc = "saved"
    /\ temp_dir' = cleanup_file(temp_dir, uploads[u].path)
    /\ uploads' = [uploads EXCEPT
          ![u].pc = "cleaned",
          ![u].status = IF succeeded THEN 200 ELSE 500,
          ![u].detail = IF succeeded THEN "none" ELSE "Analysis failed"]
    /\ now' = now
    /\ UNCHANGED <<lookupVars, measure, streamVars, callVars>>

\* app.py ALLOWED_EXTENSIONS
ALLOWED_AUDIO_EXTENSIONS == {"wav", "mp3", "flac", "m4a", "ogg", "webm"}

\* the filenames of the audio uploads, as filename.split('.'): "", "d.wav",
\* "wav", "c.txt"
AudioFilenames == {<<>>, <<"d", "wav">>, <<"wav">>, <<"c", "txt">>}

\* allowed_file(filename): '.' in filename and the text after the last '.'
\* is an allowed extension
allowed_file(filename) ==
    /\ Len(filename) > 1
    /\ lower(filename[Len(filename)]) \in ALLOWED_AUDIO_EXTENSIONS

\* filepath of speech_to_text: f"{uuid.uuid4().hex}_{filename}" in
\* UPLOAD_FOLDER; the uuid of a request is the request's own, and
\* secure_filename leaves the names of AudioFilenames as they are
AudioPath(u, filename) == <<"uploads", u, filename>>

\* speech_to_text up to the call of stt_service.transcribe_audio: the checks
\* of the request and file.save(filepath)
speech_to_text(u, filename) ==
    /\ u \in NextUpload(uploads)
    /\ IF filename = <<>> \/ ~allowed_file(filename)
       THEN /\ uploads' = [uploads EXCEPT ![u] =
                  [pc |-> "returned", path |-> NoPath, size |-> 0,
                   inode |-> 0, status |-> 400,
                   detail |-> IF filename = <<>> THEN "No file selected"
                              ELSE "Invalid file type"]]
            /\ temp_dir' = temp_dir
       ELSE /\ uploads' = [uploads EXCEPT ![u] =
                  [pc |-> "transcribing", path |-> AudioPath(u, filename),
                   size |-> 1, inode |-> u, status |-> 0,
                   detail |-> "none"]]
            /\ temp_dir' = write(open_wb(temp_dir, AudioPath(u, filename), u),
                                 AudioPath(u, filename), u, 1)
    /\ now' = now
    /\ UNCHANGED <<lookupVars, measure, streamVars, callVars>>

\* os.remove(filepath) inside try/except: pass
os_remove(dir, path) == remove_if_exists(dir, path)

\* the outcomes of stt_service.transcribe_audio: a result that says success,
\* a result that says failure, an exception
TranscribeOutcomes == {"success", "failure", "raised"}

\* speech_to_text from the return of transcribe_audio: the file is removed
\* after the call (lines 209-213) or in the except clause (lines 230-236)
speech_to_text_return(u, outcome) ==
    /\ uploads[u].pc = "transcribing"
    /\ temp_dir' = os_remove(temp_dir, uploads[u].path)
    /\ uploads' = [uploads EXCEPT
          ![u].pc = "returned",
          ![u].status = IF outcome = "success" THEN 200 ELSE 500,
          ![u].detail = IF outcome = "raised" THEN "Processing failed"
                        ELSE "none"]
    /\ now' = now
    /\ UNCHANGED <<lookupVars, measure, streamVars, callVars>>

\* a second passes: int(time.time()) of the next save_upload is one more
Tick ==
    /\ now < MaxTime
    /\ now' = now + 1
    /\ UNCHANGED <<temp_dir, uploads>>
    /\ UNCHANGED <<lookupVars, measure, streamVars, callVars>>

NextFile ==
    \/ \E u \in UploadIds :
          \/ \E file \in UploadFiles : save_upload(u, file)
          \/ save_upload_read(u)
          \/ \E succeeded \in BOOLEAN : analyze_return(u, succeeded)
          \/ \E filename \in AudioFilenames : speech_to_text(u, filename)
          \/ \E outcome \in TranscribeOutcomes :
                speech_to_text_return(u, outcome)
    \/ Tick

(***************************************************************************)
(* Inputs                                                                  *)
(***************************************************************************)
QueryEmpty  == <<>>
QueryCoffee == <<"c", "o", "f", "f", "e", "e">>
QueryShop   == <<"s", "h", "o", "p">>
QueryXyz    == <<"x", "y", "z">>
QueryXYZ    == <<"x", " ", "y", " ", "z">>
\* "find coffee shop"
QueryFind   == <<"f", "i", "n", "d", " ", "c", "o", "f", "f", "e", "e", " ", "s", "h", "o", "p">>
QueryHo     == <<"h", "o">>
\* "x y coffee"
QueryOne    == <<"x", " ", "y", " ", "c", "o", "f", "f", "e", "e">>

Queries == {QueryEmpty, QueryCoffee, QueryShop, QueryXyz, QueryXYZ, QueryFind,
            QueryHo, QueryOne}

\* in the service area: its centre (40.7128, -74.0060); a point on the north
\* edge (lat = bounds.north) that is equally far, after rounding, from two
\* locations; the north-west corner
Centre    == [lat |-> Num(407128), lng |-> Num(-740060)]
NorthEdge == [lat |-> Num(407228), lng |-> Num(-740096)]
NorthWest == [lat |-> Num(407228), lng |-> Num(-740160)]

InPoints == {Centre, NorthEdge}

\* outside the service area: (41.0, -74.0060) and (0.0, -74.0060); a missing
\* and a non-numeric latitude
OutPoints == {[lat |-> Num(410000), lng |-> Num(-740060)],
              [lat |-> Num(0), lng |-> Num(-740060)]}

BadPoints == {[lat |-> None, lng |-> Num(-740060)],
              [lat |-> StrAbc, lng |-> Num(-740060)]}

\* every query from the two inner points, the empty query from the others
ToolInputs ==
    {[lat |-> p.lat, lng |-> p.lng, query |-> q] : p \in InPoints, q \in Queries}
    \cup {[lat |-> p.lat, lng |-> p.lng, query |-> QueryEmpty] :
            p \in {NorthWest} \cup OutPoints \cup BadPoints}

\* the view reads data.get('query', '') and does not use it
AppInputs ==
    {[lat |-> p.lat, lng |-> p.lng, query |-> QueryEmpty] :
        p \in InPoints \cup {NorthWest} \cup OutPoints \cup BadPoints}

(***************************************************************************)
(* Specification                                                           *)
(***************************************************************************)
\* LocationTool.__init__ / the module level of app.py: the static list is
\* loaded and no lookup is running
InitLookup ==
    /\ heap = [r \in StaticRefs |-> LOCATIONS[r]]
    /\ locations = [i \in 1..Len(LOCATIONS) |-> i]
    /\ pc = [c \in Callers |-> "idle"]
    /\ request = [c \in Callers |-> NoRequest]
    /\ response = [c \in Callers |-> NoResponse]
    /\ frame = [c \in Callers |-> NoFrame]

\* nothing has been measured
NoMeasure == [a |-> <<0, 0>>, b |-> <<0, 0>>, done |-> FALSE]

\* ExotelStreamManager.__init__ and EcoMatrixAgent.__init__: no connection,
\* no session; no websocket has been opened
InitStream ==
    /\ connections = <<>>
    /\ sessions = <<>>
    /\ sockets = [w \in Websockets |-> NewSocket]
    /\ sent = {}

\* the module level of comm.py: conversation_histories = {}
InitCall ==
    /\ conversation_histories = <<>>
    /\ calls = [id \in CallIds |-> NoCall]
    /\ make_call_response = NoMakeCall
    /\ gemini = NoGemini

\* FileService.__init__ on a fresh checkout: an empty temp directory, no
\* upload received
InitFile ==
    /\ temp_dir = <<>>
    /\ uploads = [u \in UploadIds |-> NoUpload]
    /\ now = 0

InitOther ==
    /\ measure = NoMeasure
    /\ InitStream
    /\ InitCall
    /\ InitFile

Init == InitLookup /\ InitOther

Next ==
    \E c \in Callers :
        \/ \E inp \in ToolInputs :
              find_nearby_locations(c, inp.lat, inp.lng, inp.query)
        \/ \E data \in AppInputs : find_nearby(c, data)
        \/ Respond(c)

Spec == Init /\ [][Next]_vars

(***************************************************************************)
(* calculate_distance as a function of two points                          *)
(***************************************************************************)
\* the points of the static list, the request points and the corners of the
\* service area, as (lat, lng) in 1e-4 degree
Points ==
    {<<LOCATIONS[i].lat, LOCATIONS[i].lng>> : i \in 1..Len(LOCATIONS)}
    \cup {<<p.lat.v, p.lng.v>> : p \in InPoints \cup {NorthWest}}
    \cup {<<FIXED_AREA.bounds.south, FIXED_AREA.bounds.east>>,
          <<FIXED_AREA.bounds.south, FIXED_AREA.bounds.west>>}

InitDistance ==
    /\ InitLookup
    /\ measure \in {[a |-> p, b |-> q, done |-> FALSE] : p, q \in Points}
    /\ InitStream
    /\ InitCall
    /\ InitFile

\* calculate_distance(a, b) and calculate_distance(b, a), in millimetres
Measure ==
    /\ ~measure.done
    /\ measure' = [a |-> measure.a, b |-> measure.b, done |-> TRUE,
                   ab |-> calculate_distance(measure.a[1], measure.a[2],
                                             measure.b[1], measure.b[2]),
                   ba |-> calculate_distance(measure.b[1], measure.b[2],
                                             measure.a[1], measure.a[2])]
    /\ UNCHANGED <<lookupVars, streamVars, callVars, fileVars>>

NextDistance == Measure

SpecDistance == InitDistance /\ [][NextDistance]_vars

\* the websockets of the Exotel media stream
SpecStream == Init /\ [][NextStream]_vars

\* the calls of the Twilio caller
SpecCall == Init /\ [][NextCall]_vars

\* generate_gemini_response on the histories of Conversations
InitGemini ==
    /\ InitLookup
    /\ measure = NoMeasure
    /\ InitStream
    /\ conversation_histories = <<>>
    /\ calls = [id \in CallIds |-> NoCall]
    /\ make_call_response = NoMakeCall
    /\ gemini \in {[conversation |-> conv, done |-> FALSE] :
                      conv \in Conversations}
    /\ InitFile

SpecGemini == InitGemini /\ [][NextGemini]_vars

\* the uploads of the analysis backend
SpecFile == Init /\ [][NextFile]_vars

(***************************************************************************)
(* The demo coordinates: EcoMatrixAgent._generate_response and             *)
(* app.get_random_location                                                 *)
(***************************************************************************)
\* Number of steps between the two ends of an interval in which the values
\* of random.uniform are taken
UniformSteps == 5

\* random.uniform(a, b) for a <= b: some N with a <= N <= b (both ends
\* included: for the default bounds a + (b - a) * random() stays <= b in
\* double precision)
uniform_beyond(a, b) == {a + (k * (b - a)) \div UniformSteps : k \in 0..(UniformSteps + 1)}
uniform(a, b) == {a + (k * (b - a)) \div UniformSteps : k \in 0..UniformSteps}

location_keywords ==
    {<<"n", "e", "a", "r">>,
     <<"n", "e", "a", "r", "b", "y">>,
     <<"c", "l", "o", "s", "e", "s", "t">>,
     <<"f", "i", "n", "d">>,
     <<"w", "h", "e", "r", "e">>,
     <<"s", "h", "o", "p">>,
     <<"s", "t", "o", "r", "e">>,
     <<"c", "o", "f", "f", "e", "e">>,
     <<"h", "a", "r", "d", "w", "a", "r", "e">>,
     <<"b", "o", "o", "k">>}

\* any(keyword.lower() in user_text.lower() for keyword in location_keywords)
is_location_query(user_text) ==
    \E keyword \in location_keywords :
        IsSubstring(StrLower(keyword), StrLower(user_text))

\* what the caller says to the agent: "find coffee shop", "coffee", "xyz"
UserTexts == {QueryFind, QueryCoffee, QueryXyz}

\* _generate_response for a location query: the lookup of the location tool
\* from the point that was drawn
generate_response(c, user_lat, user_lng, user_text) ==
    /\ is_location_query(user_text)
    /\ find_nearby_locations(c, Num(user_lat), Num(user_lng), user_text)

\* the point get_random_location answers with: the one drawn, or the centre
\* when is_within_bounds rejects it
random_location_point(lat, lng, within) ==
    IF ~within.value
    THEN [lat |-> FIXED_AREA.center.lat, lng |-> FIXED_AREA.center.lng]
    ELSE [lat |-> lat, lng |-> lng]

random_location_body(point) ==
    [status |-> 200,
     body   |-> [lat |-> point.lat, lng |-> point.lng,
                 message |-> "Random location within service area",
                 service_area |-> FIXED_AREA.bounds,
                 is_within_bounds |->
                     is_within_bounds(Num(point.lat), Num(point.lng)).value]]

\* app.get_random_location: the Flask view of GET /api/random-location,
\* served for caller c, with the values random.uniform gave
get_random_location(c, lat, lng) ==
    /\ pc[c] = "idle"
    /\ pc' = [pc EXCEPT ![c] = "done"]
    /\ request' = [request EXCEPT ![c] =
                      [impl |-> "random", lat |-> Num(lat), lng |-> Num(lng),
                       query |-> <<>>]]
    /\ response' = [response EXCEPT ![c] =
          random_location_body(random_location_point(lat, lng,
              is_within_bounds(Num(lat), Num(lng))))]
    /\ UNCHANGED <<heap, locations, frame>>
    /\ UNCHANGED otherVars

\* the demo requests are served one after the other
DemoCallers == {1}

NextDemo ==
    \E c \in DemoCallers :
        \/ \E user_lat \in uniform(DEFAULT_AREA.bounds.south,
                                    DEFAULT_AREA.bounds.north),
              user_lng \in uniform(DEFAULT_AREA.bounds.west,
                                    DEFAULT_AREA.bounds.east),
              user_text \in UserTexts :
              generate_response(c, user_lat, user_lng, user_text)
        \/ \E lat \in uniform(FIXED_AREA.bounds.south, FIXED_AREA.bounds.north),
              lng \in uniform(FIXED_AREA.bounds.west, FIXED_AREA.bounds.east) :
              get_random_location(c, lat, lng)
        \/ Respond(c)

SpecDemo == Init /\ [][NextDemo]_vars

(***************************************************************************)
(* _filter_by_query as a function of the query                             *)
(***************************************************************************)
\* "s o", "x y z", "zz", "coffee xyz"
QueryShortPair   == <<"s", " ", "o">>
QueryShortTriple == <<"x", " ", "y", " ", "z">>
QueryZz          == <<"z", "z">>
QueryCoffeeXyz   == <<"c", "o", "f", "f", "e", "e", " ", "x", "y", "z">>

\* queries of one, two and three words, of short and of long words, with and
\* without a keyword of keywords_map
FilterQueries ==
    {QueryCoffee, QueryXyz, QueryFind, QueryHo, QueryOne, QueryShortPair,
     QueryShortTriple, QueryZz, QueryCoffeeXyz}

\* a lookup of the location tool with a query, from a point of the service
\* area, one lookup at a time
NextQuery ==
    \E c \in DemoCallers :
        \/ \E p \in Points, query \in FilterQueries :
              find_nearby_locations(c, Num(p[1]), Num(p[2]), query)
        \/ Respond(c)

SpecQuery == Init /\ [][NextQuery]_vars

(***************************************************************************)
(* Properties of the lookups                                               *)
(***************************************************************************)
Done(c) == pc[c] = "done"

\* the JSON object / dict the caller receives (a Flask answer carries it as
\* its body)
Body(c) == IF "body" \in DOMAIN response[c] THEN response[c].body ELSE response[c]

NumericRequest(c) == request[c].lat.kind = "num" /\ request[c].lng.kind = "num"

\* the requester's point lies in the service-area rectangle, edges included
InRectangle(c) ==
    /\ NumericRequest(c)
    /\ 407028 <= request[c].lat.v /\ request[c].lat.v <= 407228
    /\ -740160 <= request[c].lng.v /\ request[c].lng.v <= -739960

OutOfAreaError == "Location is outside the service area"

TookOutOfAreaBranch(c) ==
    "error" \in DOMAIN Body(c) /\ Body(c).error = OutOfAreaError

Succeeded(c) == Done(c) /\ "nearest_locations" \in DOMAIN Body(c)

\* the fields of the i-th entry of a list of dict references
Entry(list, i) == heap[list[i]]

\* position in the static list of the location a result dict describes
StaticIndex(d) == CHOOSE k \in 1..Len(LOCATIONS) : LOCATIONS[k].id = d.id

\* C1: a lookup (LocationTool.find_nearby_locations or app.find_nearby) for a
\* numeric point inside the service-area rectangle, points on an edge
\* included, never takes the out-of-area branch.
C1_InAreaNeverOutOfArea ==
    \A c \in Callers :
        (Done(c) /\ InRectangle(c)) => ~TookOutOfAreaBranch(c)

\* both lookups have answered a request from a point with lat = bounds.north
\* (one of them with lng = bounds.west as well) with a list of locations
C1_Witness ==
    \E c1, c2 \in Callers :
        /\ Succeeded(c1) /\ request[c1].impl = "tool"
        /\ request[c1].lat.v = 407228
        /\ Succeeded(c2) /\ request[c2].impl = "app"
        /\ request[c2].lat.v = 407228 /\ request[c2].lng.v = -740160

\* C2: a lookup for a numeric point outside the rectangle returns the
\* out-of-area structure (the error, the service-area bounds, the echoed user
\* location), computes no distance and returns no nearest_locations list.
C2_OutsideGetsOutOfAreaStructure ==
    \A c \in Callers :
        (Done(c) /\ NumericRequest(c) /\ ~InRectangle(c)) =>
            /\ TookOutOfAreaBranch(c)
            /\ "service_area" \in DOMAIN Body(c)
            /\ Body(c).service_area = DEFAULT_AREA.bounds
            /\ "user_location" \in DOMAIN Body(c)
            /\ Body(c).user_location =
                  [lat |-> request[c].lat, lng |-> request[c].lng]
            /\ "nearest_locations" \notin DOMAIN Body(c)
            /\ frame[c].distance_calls = 0

\* C3: with no query the returned nearest_locations are in ascending order of
\* rounded distance, and two locations at the same distance keep the order
\* they have in the static list.
C3_AscendingDistanceStable ==
    \A c \in Callers :
        (Succeeded(c) /\ request[c].query = <<>>) =>
            LET nl == Body(c).nearest_locations
            IN \A i, j \in 1..Len(nl) :
                  i < j =>
                     \/ Entry(nl, i).distance < Entry(nl, j).distance
                     \/ /\ Entry(nl, i).distance = Entry(nl, j).distance
                        /\ StaticIndex(Entry(nl, i)) < StaticIndex(Entry(nl, j))

\* a lookup without query has returned two locations at the same distance
C3_Witness ==
    \E c \in Callers :
        /\ Succeeded(c) /\ request[c].query = <<>>
        /\ LET nl == Body(c).nearest_locations
           IN \E i, j \in 1..Len(nl) :
                 i < j /\ Entry(nl, i).distance = Entry(nl, j).distance

\* a call of LocationTool.find_nearby_locations that has returned
ToolLookup(c) == Done(c) /\ request[c].impl = "tool"

\* x.get('relevance_score', 0) of the i-th entry of a list
Score(list, i) == GetItem(Entry(list, i), "relevance_score", 0)

\* the query has been scored: it is not blank
Scored(c) == request[c].query # <<>> /\ ~StripIsEmpty(request[c].query)

\* the words of the lowered query
QueryWords(c) == StrSplit(StrLower(request[c].query))

\* the entries of the distance-sorted list that pass the filter
Survivors(c) ==
    {i \in 1..Len(frame[c].locations_with_distance) :
        \/ ~Scored(c)
        \/ Score(frame[c].locations_with_distance, i) > 0
        \/ Len(QueryWords(c)) <= 2}

Min(a, b) == IF a < b THEN a ELSE b

\* C4: for an in-bounds request find_nearby_locations returns as
\* nearest_locations exactly the first min(5, total_found) entries of the
\* ranked list, total_found counts every candidate that passed the filter, and
\* the query is echoed unchanged.
C4_TopFiveOfRanked ==
    \A c \in Callers :
        (ToolLookup(c) /\ InRectangle(c)) =>
            /\ Succeeded(c)
            /\ Len(Body(c).nearest_locations) = Min(5, Body(c).total_found)
            /\ Body(c).nearest_locations =
                  SubSeq(frame[c].filtered, 1, Min(5, Body(c).total_found))
            /\ Body(c).total_found = Len(frame[c].filtered)
            /\ Body(c).total_found = Cardinality(Survivors(c))
            /\ Body(c).query = request[c].query

\* one lookup has returned 5 of 8 candidates while another has returned the
\* only candidate left by its query
C4_Witness ==
    \E c1, c2 \in Callers :
        /\ ToolLookup(c1) /\ Succeeded(c1)
        /\ Body(c1).total_found = 8 /\ Len(Body(c1).nearest_locations) = 5
        /\ ToolLookup(c2) /\ Succeeded(c2)
        /\ Body(c2).total_found = 1 /\ Len(Body(c2).nearest_locations) = 1
        /\ Body(c2).query = QueryOne

\* C5: with a non-empty query the candidates that are kept are in descending
\* order of relevance score and, among equal scores, in ascending order of
\* distance.
C5_ScoreThenDistance ==
    \A c \in Callers :
        (ToolLookup(c) /\ Succeeded(c) /\ request[c].query # <<>>) =>
            LET kept == frame[c].filtered
            IN \A i, j \in 1..Len(kept) :
                  i < j =>
                     \/ Score(kept, i) > Score(kept, j)
                     \/ /\ Score(kept, i) = Score(kept, j)
                        /\ Entry(kept, i).distance <= Entry(kept, j).distance

\* a query has been answered with a list in which a farther location with a
\* higher score precedes a nearer one, and two locations share a score
C5_Witness ==
    \E c \in Callers :
        /\ ToolLookup(c) /\ Succeeded(c) /\ request[c].query # <<>>
        /\ LET kept == frame[c].filtered
           IN /\ \E i, j \in 1..Len(kept) :
                    /\ i < j
                    /\ Score(kept, i) > Score(kept, j)
                    /\ Entry(kept, i).distance > Entry(kept, j).distance
              /\ \E i, j \in 1..Len(kept) :
                    /\ i < j
                    /\ Score(kept, i) = Score(kept, j)
                    /\ Entry(kept, i).distance < Entry(kept, j).distance

\* the query was scored and no location obtained a positive score
NoPositiveScore(c) ==
    /\ ToolLookup(c) /\ Succeeded(c) /\ Scored(c)
    /\ \A i \in 1..Len(frame[c].locations_with_distance) :
          Score(frame[c].locations_with_distance, i) <= 0

\* the lookup answered with the full distance-sorted list of all locations
FullDistanceSortedList(c) ==
    /\ frame[c].filtered = frame[c].locations_with_distance
    /\ Len(frame[c].filtered) = Len(LOCATIONS)
    /\ Body(c).total_found = Len(LOCATIONS)
    /\ Body(c).nearest_locations # <<>>
    /\ Body(c).nearest_locations = SubSeq(frame[c].locations_with_distance, 1, 5)
    /\ \A i, j \in 1..Len(frame[c].filtered) :
          i < j => Entry(frame[c].filtered, i).distance
                      <= Entry(frame[c].filtered, j).distance

\* C6 as stated: with a non-empty query for which no location obtains a
\* positive relevance score, the lookup falls back to the full distance-sorted
\* list of all locations and the result is not empty.
C6_FallbackForEveryQuery ==
    \A c \in Callers : NoPositiveScore(c) => FullDistanceSortedList(c)

\* C6 as amended: with a non-empty query of at most two words for which no
\* location obtains a positive relevance score, the lookup falls back to the
\* full distance-sorted list of all locations and the result is not empty.
C6_FallbackForShortQuery ==
    \A c \in Callers :
        (NoPositiveScore(c) /\ Len(QueryWords(c)) <= 2) =>
            FullDistanceSortedList(c)

\* the one-word query "xyz" matched nothing and was answered with five of the
\* eight locations
C6_Witness ==
    \E c \in Callers :
        /\ NoPositiveScore(c) /\ request[c].query = QueryXyz
        /\ Len(QueryWords(c)) = 1
        /\ Len(Body(c).nearest_locations) = 5

\* the name or the description of the location contains "coffee"
ContainsCoffee(d) ==
    \/ IsSubstring(QueryCoffee, StrLower(d.name))
    \/ IsSubstring(QueryCoffee, StrLower(d.description))

\* C7: for the query "coffee" from an in-bounds position every location whose
\* name or description contains "coffee" is ranked before every location that
\* has nothing to do with coffee, in the ranked list and in nearest_locations.
C7_CoffeeRankedFirst ==
    \A c \in Callers :
        (ToolLookup(c) /\ InRectangle(c) /\ request[c].query = QueryCoffee) =>
            /\ Succeeded(c)
            /\ \E i \in 1..Len(Body(c).nearest_locations) :
                  ContainsCoffee(Entry(Body(c).nearest_locations, i))
            /\ \A list \in {frame[c].filtered, Body(c).nearest_locations} :
                  \A i, j \in 1..Len(list) :
                     (ContainsCoffee(Entry(list, i)) /\ ~ContainsCoffee(Entry(list, j)))
                        => i < j

\* "coffee" was asked from a position where a location without coffee is
\* nearer than the coffee shop that heads the answer
C7_Witness ==
    \E c \in Callers :
        /\ ToolLookup(c) /\ Succeeded(c) /\ request[c].query = QueryCoffee
        /\ LET nl == Body(c).nearest_locations
           IN /\ ContainsCoffee(Entry(nl, 1))
              /\ \E j \in 2..Len(nl) :
                    /\ ~ContainsCoffee(Entry(nl, j))
                    /\ Entry(nl, j).distance < Entry(nl, 1).distance

\* C8: a lookup whose latitude or longitude is missing or not a number is
\* answered with an error before the bounds check and before any distance is
\* computed, and no exception leaves the lookup.
C8_BadCoordinatesRejected ==
    \A c \in Callers :
        (Done(c) /\ ~NumericRequest(c)) =>
            /\ "exception" \notin DOMAIN response[c]
            /\ "error" \in DOMAIN Body(c)
            /\ ~frame[c].bounds_checked
            /\ frame[c].distance_calls = 0

\* the templated apologies of _generate_location_response
Apologies(query) ==
    {[template |-> "I didn't find any {query} in your immediate area. Would you like me to help you find something else?",
      query |-> query]}

\* C9: when the filter leaves no candidate, find_nearby_locations returns a
\* success result: no error field, an empty nearest_locations list,
\* total_found 0 and the templated apology.
C9_NoCandidateIsSuccess ==
    \A c \in Callers :
        (ToolLookup(c) /\ InRectangle(c) /\ Survivors(c) = {}) =>
            /\ "error" \notin DOMAIN Body(c)
            /\ Succeeded(c)
            /\ Body(c).nearest_locations = <<>>
            /\ Body(c).total_found = 0
            /\ Body(c).message \in Apologies(request[c].query)

\* the three-word query "x y z" has been answered after every location was
\* scored 0 and dropped
C9_Witness ==
    \E c \in Callers :
        /\ ToolLookup(c) /\ request[c].query = QueryXYZ
        /\ frame[c].distance_calls = Len(LOCATIONS)
        /\ Len(frame[c].locations_with_distance) = Len(LOCATIONS)
        /\ frame[c].filtered = <<>>
        /\ Body(c).total_found = 0

\* C10: whatever lookups have run or are being answered, the static list
\* holds the same dicts in the same order and every dict has exactly its
\* original fields and values: distance and relevance_score are written on
\* copies only.
C10_StaticListNeverMutated ==
    /\ locations = [i \in 1..Len(LOCATIONS) |-> i]
    /\ \A i \in 1..Len(LOCATIONS) : heap[locations[i]] = LOCATIONS[i]
    /\ \A c \in Callers :
          Succeeded(c) =>
             \A i \in 1..Len(frame[c].locations_with_distance) :
                frame[c].locations_with_distance[i] \notin Range(locations)

\* two lookups with a query are being answered at the same time, each holding
\* copies that carry a distance and a relevance score
C10_Witness ==
    \E c1, c2 \in Callers :
        /\ c1 # c2
        /\ ToolLookup(c1) /\ Succeeded(c1) /\ Scored(c1)
        /\ ToolLookup(c2) /\ Succeeded(c2) /\ Scored(c2)
        /\ \A c \in {c1, c2} :
              \A i \in 1..Len(frame[c].locations_with_distance) :
                 /\ "distance" \in DOMAIN Entry(frame[c].locations_with_distance, i)
                 /\ "relevance_score" \in DOMAIN Entry(frame[c].locations_with_distance, i)

\* C11: two lookups of find_nearby_locations with the same (lat, lng, query)
\* return the same nearest_locations: the same entries in the same order with
\* the same distance and score values, whatever lookups ran before or between
\* them.
C11_SameInputSameResult ==
    \A c1, c2 \in Callers :
        (ToolLookup(c1) /\ ToolLookup(c2) /\ request[c1] = request[c2]) =>
            /\ Succeeded(c1) <=> Succeeded(c2)
            /\ frame[c1].returned = frame[c2].returned
            /\ Succeeded(c1) =>
                  /\ Len(frame[c1].returned) = Len(Body(c1).nearest_locations)
                  /\ Body(c1).total_found = Body(c2).total_found

\* two callers hold the answers to the same lookup without query, which
\* returned five locations that carry a distance and no score
C11_Witness ==
    \E c1, c2 \in Callers :
        /\ c1 # c2
        /\ ToolLookup(c1) /\ ToolLookup(c2) /\ request[c1] = request[c2]
        /\ request[c1].query = QueryEmpty
        /\ Len(frame[c1].returned) = 5
        /\ \A i \in 1..5 :
              /\ "distance" \in DOMAIN frame[c1].returned[i]
              /\ "relevance_score" \notin DOMAIN frame[c1].returned[i]

\* C12: calculate_distance is symmetric: the distance from A to B equals the
\* distance from B to A.
C12_DistanceSymmetric ==
    measure.done => measure.ab = measure.ba

\* both directions have been computed for two points that differ in latitude
\* and in longitude and are more than a kilometre apart
C12_Witness ==
    /\ measure.done
    /\ measure.a[1] < measure.b[1] /\ measure.a[2] > measure.b[2]
    /\ measure.ab > 1000000

\* a lookup that ranked the static list by distance from (40.7128, -74.0060)
FromCentre(c) ==
    /\ Succeeded(c)
    /\ request[c].lat = Centre.lat /\ request[c].lng = Centre.lng

\* the position of the location with the given name in a list of dicts
PositionOf(list, name) ==
    CHOOSE i \in 1..Len(list) : Entry(list, i).name = name

\* the rank of "Coffee Corner C" among the shop-type entries of the
\* distance-sorted list of caller c: 1 for the nearest shop
CoffeeCornerShopRank(c) ==
    LET list == frame[c].locations_with_distance
    IN Cardinality({i \in 1..PositionOf(list, Name5) : Entry(list, i).type = SHOP})

\* C13 as stated: for the user at (40.7128, -74.0060) "Coffee Corner C" is the
\* nearest or the second-nearest of the shop-type entries.
C13_CoffeeCornerNearestOrSecond ==
    \A c \in Callers : FromCentre(c) => CoffeeCornerShopRank(c) <= 2

\* C13 as amended: for the user at (40.7128, -74.0060) "Coffee Corner C" is
\* the third-nearest of the five shop-type entries, at 0.459 km.
C13_CoffeeCornerThirdShop ==
    \A c \in Callers :
        FromCentre(c) =>
            /\ CoffeeCornerShopRank(c) = 3
            /\ Entry(frame[c].locations_with_distance,
                     PositionOf(frame[c].locations_with_distance, Name5)).distance = 459

\* a lookup from (40.7128, -74.0060) has ranked all eight locations, five of
\* them shops
C13_Witness ==
    \E c \in Callers :
        /\ FromCentre(c)
        /\ Len(frame[c].locations_with_distance) = 8
        /\ Cardinality({i \in 1..8 :
              Entry(frame[c].locations_with_distance, i).type = SHOP}) = 5

\* round(R * c, 3) of the haversine formula in double precision, in metres,
\* from the three request points of the service area to the locations 1..8
HaversineMetres(lat, lng) ==
    IF lat = 407128 /\ lng = -740060
    THEN <<158, 366, 191, 602, 459, 869, 487, 734>>
    ELSE IF lat = 407228 /\ lng = -740096
    THEN <<1003, 850, 1208, 712, 1424, 712, 875, 426>>
    ELSE <<1238, 1196, 1377, 1144, 1510, 1220, 964, 726>>

\* C14: the distance attached to each result is the haversine great-circle
\* distance with Earth radius 6371 km between the user and the location,
\* rounded to three decimal places (here: a whole number of metres).
C14_DistanceIsRoundedHaversine ==
    \A c \in Callers :
        Succeeded(c) =>
            /\ \A i \in 1..Len(frame[c].locations_with_distance) :
                  LET d == Entry(frame[c].locations_with_distance, i)
                  IN d.distance =
                        HaversineMetres(request[c].lat.v, request[c].lng.v)[d.id]
            /\ \A i \in 1..Len(frame[c].returned) :
                  frame[c].returned[i].distance =
                     HaversineMetres(request[c].lat.v, request[c].lng.v)
                        [frame[c].returned[i].id]

\* a lookup has returned a location whose distance was rounded up (157.8 m to
\* 0.158 km) and one whose distance was rounded down (487.3 m to 0.487 km)
C14_Witness ==
    \E c \in Callers :
        /\ FromCentre(c)
        /\ \E i, j \in 1..Len(frame[c].returned) :
              /\ frame[c].returned[i].id = 1 /\ frame[c].returned[i].distance = 158
              /\ frame[c].returned[j].id = 7 /\ frame[c].returned[j].distance = 487

(***************************************************************************)
(* Properties of the Exotel media stream                                   *)
(***************************************************************************)
Returned(w) == sockets[w].state = "returned"

\* websocket w holds the entry of stream id sid / created its session
OwnsConnection(w, sid) ==
    sid \in DOMAIN connections /\ connections[sid].websocket = w

OwnsSession(w, sid) ==
    sid \in DOMAIN sessions /\ sessions[sid].creator = w

\* C15: when handle_exotel_websocket has returned, every entry it added to
\* ExotelStreamManager.connections and the agent session created with it have
\* been removed, whatever messages the websocket delivered.
C15_ReturnReleasesEveryEntry ==
    \A w \in Websockets :
        Returned(w) =>
            \A sid \in sockets[w].added :
                ~OwnsConnection(w, sid) /\ ~OwnsSession(w, sid)

\* C16: the audio produced for a connected or media event is sent on the
\* websocket on which the event arrived, and while a websocket is open the
\* connection and the session of the stream id it uses are not removed by the
\* cleanup of another websocket.
C16_AudioAndEntriesStayWithTheirSocket ==
    /\ \A a \in sent : a.on = a.arrived
    /\ \A w \in Websockets :
          sockets[w].state = "open" =>
             \A sid \in sockets[w].using :
                sid \in DOMAIN connections /\ sid \in DOMAIN sessions

HasHistory(call_id) == call_id \in DOMAIN conversation_histories

\* C18: the history of a call_id exists from a successful make_call until a
\* terminal status callback arrives; the callback removes it, and a
\* handle_response that arrives later does not recreate it and answers with
\* a hang-up.
C18_HistoryFromCallToTerminalStatus ==
    \A call_id \in CallIds :
        /\ (calls[call_id].made = "ok" /\ ~calls[call_id].ended) =>
              /\ HasHistory(call_id)
              /\ SubSeq(conversation_histories[call_id], 1, 2) = InitialHistory
        /\ calls[call_id].ended =>
              /\ ~HasHistory(call_id)
              /\ (calls[call_id].late /\ ~calls[call_id].thinking) =>
                    calls[call_id].answer = "hangup"

\* a call was made, the callee spoke once and was answered, the terminal
\* callback arrived and a handle_response after it was answered
C18_Witness ==
    \E call_id \in CallIds :
        /\ calls[call_id].made = "ok" /\ calls[call_id].ended
        /\ calls[call_id].turns = 2
        /\ calls[call_id].late /\ calls[call_id].answer = "hangup"
        /\ \E other \in CallIds :
              /\ calls[other].made = "ok" /\ ~calls[other].ended
              /\ HasHistory(other) /\ Len(conversation_histories[other]) > 2

\* the upload has passed validate_file and is larger than the limit
Oversized(u) ==
    /\ uploads[u].pc = "reading"
    /\ uploads[u].size > MAX_FILE_SIZE

\* C20: when save_upload ends for an upload larger than MAX_FILE_SIZE, it has
\* raised an HTTPException with status 400 and detail "File too large", and
\* there is no file at the upload's temp path.
C20_OversizedUploadIs400TooLarge ==
    [][\A u \in UploadIds :
          (Oversized(u) /\ uploads'[u].pc # "reading")
          => /\ uploads'[u].pc = "raised"
             /\ uploads'[u].status = 400
             /\ uploads'[u].detail = "File too large"
             /\ uploads[u].path \notin DOMAIN temp_dir']_vars

\* the request of upload u has saved a file and has not returned yet
InProgress(u) == uploads[u].pc \in {"reading", "saved", "transcribing"}

\* C21: two uploads the backend is handling at the same time have different
\* temp file paths, and the file of an upload that is being analysed is still
\* at its path.
C21_InFlightUploadsHaveOwnFile ==
    /\ \A u, v \in UploadIds :
          (u # v /\ InProgress(u) /\ InProgress(v))
          => uploads[u].path # uploads[v].path
    /\ \A u \in UploadIds :
          uploads[u].pc = "saved" => uploads[u].path \in DOMAIN temp_dir

\* C22: when analyze-product, analyze-diy or speech-to-text returns after it
\* saved the upload, whether the later steps succeeded or failed, there is
\* no file at the path it saved to; and every file of the two directories
\* is at the path of a request that has not returned yet.
C22_SavedFileGoneOnReturn ==
    [][/\ \A u \in UploadIds :
             (uploads[u].pc \in {"saved", "transcribing"}
                 /\ uploads'[u].pc \in {"cleaned", "returned"})
             => uploads[u].path \notin DOMAIN temp_dir'
       /\ \A path \in DOMAIN temp_dir' :
             \E u \in UploadIds :
                /\ uploads'[u].pc \in {"reading", "saved", "transcribing"}
                /\ uploads'[u].path = path]_vars

\* an analysis that failed, one that succeeded and a transcription that
\* raised have returned, and the directories are empty
C22_Witness ==
    /\ \E u \in UploadIds :
          uploads[u].pc = "cleaned" /\ uploads[u].status = 500
    /\ \E u \in UploadIds :
          uploads[u].pc = "cleaned" /\ uploads[u].status = 200
    /\ \E u \in UploadIds :
          uploads[u].pc = "returned" /\ uploads[u].detail = "Processing failed"
    /\ temp_dir = <<>>

\* C23: no conversation history is stored for a make_call that failed: every
\* history belongs to a call id whose make_call answered 200, and a call id
\* whose make_call answered 500 has no history.
C23_FailedMakeCallLeavesNoHistory ==
    /\ \A id \in DOMAIN conversation_histories : calls[id].made = "ok"
    /\ \A id \in CallIds : calls[id].made = "error" => ~HasHistory(id)

\* C24: between the messages the websockets handle, the stream ids that have
\* a connection entry are the stream ids that have an agent session.
C24_ConnectionIffSession ==
    DOMAIN connections = DOMAIN sessions

\* a handler has returned and its last stream id was cleaned up, while an
\* entry and a session of another stream id are there
C24_Witness ==
    /\ \E w \in Websockets :
          /\ Returned(w)
          /\ sockets[w].stream_id \in sockets[w].added
          /\ sockets[w].stream_id \notin DOMAIN connections
    /\ \E sid \in StreamIds : sid \in DOMAIN connections

\* C25: a lookup the agent makes from coordinates it drew never returns the
\* out-of-area result, and /api/random-location answers with a point of the
\* rectangle and is_within_bounds true.
C25_DemoCoordinatesInArea ==
    \A c \in DemoCallers :
        Done(c) =>
            /\ request[c].impl = "tool" =>
                  InRectangle(c) /\ ~TookOutOfAreaBranch(c)
            /\ request[c].impl = "random" =>
                  /\ InRectangle(c)
                  /\ Body(c).lat = request[c].lat.v
                  /\ Body(c).lng = request[c].lng.v
                  /\ Body(c).is_within_bounds

\* the agent looked up from the north-east corner, the largest values
\* random.uniform gives, and got a list of locations
C25_Witness ==
    \E c \in DemoCallers :
        /\ Succeeded(c) /\ request[c].impl = "tool"
        /\ request[c].lat.v = 407228 /\ request[c].lng.v = -739960

\* the location tool has filtered the distance-sorted list by the query
Filtered(c) == ToolLookup(c) /\ InRectangle(c) /\ Scored(c)

\* the entries of the distance-sorted list with a positive score
PositiveScores(c) ==
    {i \in 1..Len(frame[c].locations_with_distance) :
        Score(frame[c].locations_with_distance, i) > 0}

\* C26: _filter_by_query with a query of more than two words keeps the
\* locations with a positive relevance score and drops every location with
\* score 0; with a query of one or two words it drops no location, and
\* total_found is the number of locations.
C26_ZeroScoreDroppedOnlyForLongQuery ==
    \A c \in DemoCallers :
        Filtered(c) =>
            /\ Len(QueryWords(c)) > 2 =>
                  /\ \A i \in 1..Len(frame[c].filtered) :
                        Score(frame[c].filtered, i) > 0
                  /\ Len(frame[c].filtered) = Cardinality(PositiveScores(c))
            /\ Len(QueryWords(c)) <= 2 =>
                  /\ Len(frame[c].filtered) = Len(LOCATIONS)
                  /\ Body(c).total_found = Len(LOCATIONS)
            /\ Body(c).total_found = Len(frame[c].filtered)

\* "find coffee shop" has dropped three of the eight locations
C26_Witness ==
    \E c \in DemoCallers :
        /\ Filtered(c) /\ request[c].query = QueryFind
        /\ Len(QueryWords(c)) = 3
        /\ Cardinality(PositiveScores(c)) = 5
        /\ Body(c).total_found = 5

\* no keyword of keywords_map occurs in the lowered query
NoCategoryKeyword(query) ==
    \A p \in KeywordPairs :
        ~IsSubstring(keywords_map[p[1]].keywords[p[2]], StrLower(query))

\* every word of the query has one or two characters
OnlyShortWords(c) ==
    \A i \in 1..Len(QueryWords(c)) : Len(QueryWords(c)[i]) <= 2

\* C27: a query whose words all have one or two characters and in which no
\* category keyword occurs gives every location the relevance score 0.
C27_ShortWordsScoreNothing ==
    \A c \in DemoCallers :
        (Filtered(c) /\ OnlyShortWords(c) /\ NoCategoryKeyword(request[c].query))
        => \A i \in 1..Len(frame[c].locations_with_distance) :
              Score(frame[c].locations_with_distance, i) = 0

\* caller c1 asked the location tool and caller c2 the Flask endpoint, from
\* the same numeric point, the tool with an empty query
SamePointBothLookups(c1, c2) ==
    /\ Done(c1) /\ request[c1].impl = "tool" /\ request[c1].query = <<>>
    /\ Done(c2) /\ request[c2].impl = "app"
    /\ NumericRequest(c1) /\ NumericRequest(c2)
    /\ request[c1].lat = request[c2].lat /\ request[c1].lng = request[c2].lng

\* the two answers list the same locations in the same order with the same
\* distances
SameNearestLocations(c1, c2) ==
    /\ Succeeded(c1) /\ Succeeded(c2)
    /\ Len(Body(c1).nearest_locations) = Len(Body(c2).nearest_locations)
    /\ \A i \in 1..Len(Body(c1).nearest_locations) :
          Entry(Body(c1).nearest_locations, i)
             = Entry(Body(c2).nearest_locations, i)

\* C28: for the same point and an empty query, LocationTool.find_nearby_locations
\* and app.find_nearby agree on whether the point is out of area, and for a
\* point inside the rectangle they return the same nearest_locations in the
\* same order with the same distances.
C28_ToolAndEndpointAgree ==
    \A c1, c2 \in Callers :
        SamePointBothLookups(c1, c2) =>
            /\ TookOutOfAreaBranch(c1) <=> TookOutOfAreaBranch(c2)
            /\ InRectangle(c1) => SameNearestLocations(c1, c2)

\* the messages of the history the model was given, by their contents
GivenMessages == [i \in 1..(Len(gemini.contents) - 1) |-> gemini.contents[i + 1].text]

\* C29: for a history of more than 12 messages generate_gemini_response gives
\* the model the system prompt followed by the last 10 messages of the
\* history and nothing else, and the stored history is as long as before.
C29_SystemPromptPlusLastTen ==
    (gemini.done /\ Len(gemini.conversation) > 12) =>
        /\ gemini.contents[1] = [role |-> "model", text |-> "system"]
        /\ GivenMessages =
              [i \in 1..10 |->
                  gemini.conversation[Len(gemini.conversation) - 10 + i].content]
        /\ gemini.stored = gemini.conversation

====
